---- MODULE Spec2Model ----
(***************************************************************************)
(* Card-matching game engine (src/core/GameEngine.js): the GameEngine      *)
(* state machine (flipCard, flipBackCards, undoMove, endGame) together     *)
(* with the data structures it owns (Stack, BinarySearchTree, HashTable,   *)
(* Card).                                                                  *)
(***************************************************************************)
EXTENDS Integers, Sequences, FiniteSets, TLC

VARIABLES rows, cols, totalCards, cardGraph, cards, cardHash, flippedCards, moveHistory,
          moves, score, gameState, timer, scoreTree, result, probe

\* probe holds the name and the arguments of a call that is on record, and
\* the result of a function of the program that is applied on its own
vars == <<rows, cols, totalCards, cardGraph, cards, cardHash, flippedCards, moveHistory,
          moves, score, gameState, timer, scoreTree, result, probe>>

\* the fields of the engine
engine == <<rows, cols, totalCards, cardGraph, cards, cardHash, flippedCards, moveHistory,
            moves, score, gameState, timer, scoreTree, result>>

(***************************************************************************)
(* Bounds of the exploration.                                              *)
(***************************************************************************)
\* flips are explored while the move history is shorter than this
MaxMoves == 2
\* flips are explored while the pending list is shorter than this
MaxPending == 3

\* board sizes (rows, cols) of the small-board specification
Boards == {<<2, 2>>}
\* board sizes with an odd number of cells, which the constructor accepts:
\* createCards makes floor(cells / 2) pairs and the last cell stays empty
OddBoards == {<<1, 3>>}
\* values of Date.now() - startTime (milliseconds) seen by endGame
Elapsed == {1500, 1001000}

(***************************************************************************)
(* JavaScript values.                                                      *)
(***************************************************************************)
\* null and undefined, kept apart from card ids (which are >= 0)
Null == -1
Undefined == -2

\* the % operator of JavaScript: the result has the sign of the dividend
JsRem(a, b) == IF a >= 0 THEN a % b ELSE -((-a) % b)

Max(a, b) == IF a >= b THEN a ELSE b

\* decimal digits of an integer, as character codes (template literal ${n})
RECURSIVE ToStr(_)
ToStr(n) ==
    IF n < 0 THEN <<45>> \o ToStr(-n)
    ELSE IF n < 10 THEN <<48 + n>>
    ELSE ToStr(n \div 10) \o <<48 + (n % 10)>>

\* the key `${row}-${col}`
\* a key that is built from the row alone
KeyOfRowTwice(row, col) == ToStr(row) \o <<45>> \o ToStr(row)

Key(row, col) == ToStr(row) \o <<45>> \o ToStr(col)

(***************************************************************************)
(* Stack (move history).                                                   *)
(***************************************************************************)
\* a push that puts the element under the others
StackPushUnder(items, element) == <<element>> \o items

StackPush(items, element) == Append(items, element)

StackIsEmpty(items) == Len(items) = 0

\* a pop that takes the oldest element instead of the newest
StackPopOldest(items) ==
    IF Len(items) = 0 THEN <<Null, items>>
    ELSE <<items[1], SubSeq(items, 2, Len(items))>>

\* pop() returns <<element or Null, remaining items>>
StackPop(items) ==
    IF StackIsEmpty(items) THEN <<Null, items>>
    ELSE <<items[Len(items)], SubSeq(items, 1, Len(items) - 1)>>

\* a peek that looks at the oldest element instead of the newest
StackPeekOldest(items) == IF Len(items) = 0 THEN Null ELSE items[1]

StackPeek(items) == IF StackIsEmpty(items) THEN Null ELSE items[Len(items)]

StackSize(items) == Len(items)

(***************************************************************************)
(* BinarySearchTree (score ledger).  The tree is a sequence of nodes;      *)
(* left and right are indices into it, 0 standing for null; the root is    *)
(* node 1.                                                                 *)
(***************************************************************************)
\* a node that does not keep the score it is given
TreeNodeWithoutScore(value, sc) ==
    [value |-> value, score |-> 0, left |-> 0, right |-> 0]

TreeNode(value, sc) == [value |-> value, score |-> sc, left |-> 0, right |-> 0]

\* an insertNode that sends a score equal to the node's to the left
RECURSIVE InsertNodeTiesLeft(_, _, _)
InsertNodeTiesLeft(tree, node, new) ==
    IF tree[new].score <= tree[node].score
    THEN IF tree[node].left = 0
         THEN [tree EXCEPT ![node].left = new]
         ELSE InsertNodeTiesLeft(tree, tree[node].left, new)
    ELSE IF tree[node].right = 0
         THEN [tree EXCEPT ![node].right = new]
         ELSE InsertNodeTiesLeft(tree, tree[node].right, new)

RECURSIVE InsertNode(_, _, _)
InsertNode(tree, node, new) ==
    IF tree[new].score < tree[node].score
    THEN IF tree[node].left = 0
         THEN [tree EXCEPT ![node].left = new]
         ELSE InsertNode(tree, tree[node].left, new)
    ELSE IF tree[node].right = 0
         THEN [tree EXCEPT ![node].right = new]
         ELSE InsertNode(tree, tree[node].right, new)

BstInsert(tree, value, sc) ==
    LET withNode == Append(tree, TreeNode(value, sc))
    IN  IF Len(tree) = 0 THEN withNode
        ELSE InsertNode(withNode, 1, Len(withNode))

\* inOrderTraversal from a node: left subtree, the node, right subtree
RECURSIVE InOrderFrom(_, _)
InOrderFrom(tree, node) ==
    IF node = 0 THEN <<>>
    ELSE InOrderFrom(tree, tree[node].left)
         \o <<[value |-> tree[node].value, score |-> tree[node].score]>>
         \o InOrderFrom(tree, tree[node].right)

inOrderTraversal(tree) == IF Len(tree) = 0 THEN <<>> ELSE InOrderFrom(tree, 1)

\* the compare function of getTopScores
CompareScores(a, b) == b.score - a.score

\* x put into a sorted sequence behind every element that does not compare
\* greater than it (Array.prototype.sort is stable)
RECURSIVE InsertSorted(_, _, _)
InsertSorted(sorted, x, i) ==
    IF i > Len(sorted) THEN Append(sorted, x)
    ELSE IF CompareScores(sorted[i], x) > 0
         THEN SubSeq(sorted, 1, i - 1) \o <<x>> \o SubSeq(sorted, i, Len(sorted))
         ELSE InsertSorted(sorted, x, i + 1)

RECURSIVE SortFrom(_, _, _)
SortFrom(sorted, seq, i) ==
    IF i > Len(seq) THEN sorted
    ELSE SortFrom(InsertSorted(sorted, seq[i], 1), seq, i + 1)

\* scores.sort((a, b) => b.score - a.score)
SortScores(seq) == SortFrom(<<>>, seq, 1)

\* seq.slice(0, end)
SliceFromStart(seq, end) ==
    LET stop == IF end < 0 THEN Max(Len(seq) + end, 0)
                ELSE IF end > Len(seq) THEN Len(seq) ELSE end
    IN  SubSeq(seq, 1, stop)

getTopScores(tree, limit) == SliceFromStart(SortScores(inOrderTraversal(tree)), limit)

(***************************************************************************)
(* HashTable (position index).  keyMap maps the bucket indices that hold  *)
(* a chain to that chain, a sequence of <<key, value>>; an index outside   *)
(* its domain is a bucket that was never created.                          *)
(***************************************************************************)
HashSize == 53

EmptyHash == <<>>

RECURSIVE HashFrom(_, _, _)
HashFrom(key, i, total) ==
    IF i > Len(key) \/ i > 100 THEN total
    ELSE HashFrom(key, i + 1, JsRem(total * 31 + (key[i] - 96), HashSize))

Hash(key) == HashFrom(key, 1, 0)

HashSet(keyMap, key, value) ==
    IF Hash(key) \in DOMAIN keyMap
    THEN [keyMap EXCEPT ![Hash(key)] = Append(@, <<key, value>>)]
    ELSE [i \in (DOMAIN keyMap) \cup {Hash(key)} |->
            IF i = Hash(key) THEN <<<<key, value>>>> ELSE keyMap[i]]

\* a lookup that takes the first entry of the bucket without comparing keys
RECURSIVE ChainFindAnyKey(_, _, _)
ChainFindAnyKey(chain, key, i) ==
    IF i > Len(chain) THEN Undefined
    ELSE chain[i][2]

RECURSIVE ChainFind(_, _, _)
ChainFind(chain, key, i) ==
    IF i > Len(chain) THEN Undefined
    ELSE IF chain[i][1] = key THEN chain[i][2]
    ELSE ChainFind(chain, key, i + 1)

HashGet(keyMap, key) ==
    IF Hash(key) \in DOMAIN keyMap
    THEN ChainFind(keyMap[Hash(key)], key, 1)
    ELSE Undefined

(***************************************************************************)
(* Graph (card relationships).  adjacencyList maps every vertex to the     *)
(* sequence of its neighbors.                                              *)
(***************************************************************************)
EmptyGraph == <<>>

AddVertex(adjacencyList, vertex) ==
    IF vertex \in DOMAIN adjacencyList THEN adjacencyList
    ELSE [v \in (DOMAIN adjacencyList) \cup {vertex} |->
            IF v = vertex THEN <<>> ELSE adjacencyList[v]]

AddEdge(adjacencyList, vertex1, vertex2) ==
    LET withBoth   == AddVertex(AddVertex(adjacencyList, vertex1), vertex2)
        withSecond == [withBoth EXCEPT ![vertex1] = Append(@, vertex2)]
    IN  [withSecond EXCEPT ![vertex2] = Append(@, vertex1)]

\* getNeighbors that returns the first neighbor only
GetNeighborsFirstOnly(adjacencyList, vertex) ==
    IF vertex \in DOMAIN adjacencyList /\ Len(adjacencyList[vertex]) > 0
    THEN <<adjacencyList[vertex][1]>> ELSE <<>>

GetNeighbors(adjacencyList, vertex) ==
    IF vertex \in DOMAIN adjacencyList THEN adjacencyList[vertex] ELSE <<>>

(***************************************************************************)
(* Queue: items is an array, enqueue pushes at the end, dequeue shifts the *)
(* first element out.                                                      *)
(***************************************************************************)
QueueEnqueue(items, element) == Append(items, element)

QueueIsEmpty(items) == Len(items) = 0

\* a dequeue that takes the newest element instead of the oldest
QueueDequeueNewest(items) ==
    IF Len(items) = 0 THEN <<Null, items>>
    ELSE <<items[Len(items)], SubSeq(items, 1, Len(items) - 1)>>

\* dequeue() returns <<element or Null, remaining items>>
QueueDequeue(items) ==
    IF QueueIsEmpty(items) THEN <<Null, items>>
    ELSE <<Head(items), Tail(items)>>

\* reconstructPath(parent, start, end): the vertices from start to current,
\* following parent from the end backwards
RECURSIVE ReconstructPath(_, _, _)
ReconstructPath(parent, start, current) ==
    IF current = start THEN <<start>>
    ELSE Append(ReconstructPath(parent, start, parent[current]), current)

\* the for loop of bfs without the test of visited
RECURSIVE VisitNeighborsAgain(_, _, _, _)
VisitNeighborsAgain(neighbors, i, current, st) ==
    IF i > Len(neighbors) THEN st
    ELSE CHOOSE done \in
            {VisitNeighborsAgain(neighbors, i + 1, current, next) :
                next \in {[queue |-> QueueEnqueue(st.queue, neighbors[i]),
                           visited |-> st.visited \cup {neighbors[i]},
                           parent |-> [v \in DOMAIN st.parent \cup {neighbors[i]} |->
                                         IF v = neighbors[i] THEN current
                                         ELSE st.parent[v]]]}} : TRUE

\* the for loop of bfs over the neighbors of current from the i-th on; st
\* holds the queue, the visited set and the parent map
RECURSIVE VisitNeighbors(_, _, _, _)
VisitNeighbors(neighbors, i, current, st) ==
    IF i > Len(neighbors) THEN st
    ELSE IF neighbors[i] \in st.visited
         THEN VisitNeighbors(neighbors, i + 1, current, st)
         ELSE CHOOSE done \in
                 {VisitNeighbors(neighbors, i + 1, current, next) :
                     next \in {[queue |-> QueueEnqueue(st.queue, neighbors[i]),
                                visited |-> st.visited \cup {neighbors[i]},
                                parent |-> [v \in DOMAIN st.parent \cup {neighbors[i]} |->
                                              IF v = neighbors[i] THEN current
                                              ELSE st.parent[v]]]}} : TRUE

(***************************************************************************)
(* Card.  A card object is identified by its id; the cards sequence holds  *)
(* the objects in board order.                                             *)
(***************************************************************************)
Card(id, symbol) ==
    [id |-> id, symbol |-> symbol, isMatched |-> FALSE, isFlipped |-> FALSE,
     position |-> Null]

\* index in cs of the card object with this id
CardIndex(cs, id) == CHOOSE i \in 1..Len(cs) : cs[i].id = id

CardOf(cs, id) == cs[CardIndex(cs, id)]

\* Card.flip(): toggles the flag
CardFlip(cs, id) ==
    [cs EXCEPT ![CardIndex(cs, id)].isFlipped = ~cs[CardIndex(cs, id)].isFlipped]

\* Card.match()
CardMatch(cs, id) == [cs EXCEPT ![CardIndex(cs, id)].isMatched = TRUE]

(***************************************************************************)
(* Construction: createCards, shuffleCards.                                *)
(***************************************************************************)
Symbols == <<"spade", "heart", "diamond", "club", "star", "circle",
             "triangle", "square">>

\* createCards(): floor(total/2) pairs, ids 2i and 2i+1 share symbols[i % 8]
CreateCards(total) ==
    [k \in 1..(2 * (total \div 2)) |->
        Card(k - 1, Symbols[(((k - 1) \div 2) % Len(Symbols)) + 1])]

Swap(cs, i, j) == [cs EXCEPT ![i] = cs[j], ![j] = cs[i]]

\* the Fisher-Yates loop: for i = length-1 down to 1 swap cards[i] and
\* cards[js[i]] (0-based), js[i] being floor(Math.random() * (i + 1))
RECURSIVE FisherYates(_, _, _)
FisherYates(cs, js, i) ==
    IF i <= 0 THEN cs
    ELSE FisherYates(Swap(cs, i + 1, js[i] + 1), js, i - 1)

\* outcomes of the random draws for n cards: iteration i draws
\* j = floor(Math.random() * (i + 1)), any of 0..i
RandomDraws(n) ==
    {js \in [1..(n - 1) -> 0..(n - 1)] : \A i \in 1..(n - 1) : js[i] <= i}

\* the explorations start from this many outcomes of the shuffle
MaxLayouts == 2

\* the draws that the explorations start from, a part of RandomDraws: the
\* first iteration (i = n-1) draws j = i (which swaps nothing), then j = 0,
\* j = 1 and so on up to MaxLayouts values, the later ones draw j = i.  On
\* the 2x2 board the first two give a layout with the pairs in the rows and
\* one with the pairs in the columns, the third one the pairs on the diagonals
ExploredDraws(n) ==
    {[i \in 1..(n - 1) |-> IF i = n - 1 THEN j ELSE i] :
        j \in {IF k = 1 THEN n - 1 ELSE k - 2 :
                  k \in 1..(IF MaxLayouts < n THEN MaxLayouts ELSE n)}}

\* the forEach of shuffleCards: positions by index
AssignPositions(cs, nc) ==
    [k \in 1..Len(cs) |->
        [cs[k] EXCEPT !.position = [row |-> (k - 1) \div nc, col |-> (k - 1) % nc]]]

\* the forEach of shuffleCards: cardHash.set for every card in order
RECURSIVE FillHash(_, _, _)
FillHash(keyMap, cs, k) ==
    IF k > Len(cs) THEN keyMap
    ELSE FillHash(HashSet(keyMap, Key(cs[k].position.row, cs[k].position.col), cs[k].id),
                  cs, k + 1)

getCardAt(row, col) ==
    IF row < 0 \/ row >= rows \/ col < 0 \/ col >= cols THEN Null
    ELSE HashGet(cardHash, Key(row, col))

\* directions in which the last one is a diagonal
DirectionsWithDiagonal == <<<<-1, 0>>, <<1, 0>>, <<0, -1>>, <<1, 1>>>>

\* the four directions of buildCardGraph: up, down, left, right
Directions == <<<<-1, 0>>, <<1, 0>>, <<0, -1>>, <<0, 1>>>>

\* the forEach over the directions for the card current at (row, col); each
\* graph is bound as a value (next) before the next direction works on it
RECURSIVE AddNeighborEdges(_, _, _, _, _)
AddNeighborEdges(graph, current, row, col, d) ==
    IF d > Len(Directions) THEN graph
    ELSE CHOOSE built \in
            {AddNeighborEdges(next, current, row, col, d + 1) :
                next \in {IF getCardAt(row + Directions[d][1], col + Directions[d][2])
                               \notin {Null, Undefined}
                          THEN AddEdge(graph, current,
                                       getCardAt(row + Directions[d][1],
                                                 col + Directions[d][2]))
                          ELSE graph}} : TRUE

\* the loops of buildCardGraph over the cells, n counting them in reading order
RECURSIVE BuildFromCell(_, _)
BuildFromCell(graph, n) ==
    IF n >= rows * cols THEN graph
    ELSE CHOOSE built \in
            {BuildFromCell(next, n + 1) :
                next \in {IF getCardAt(n \div cols, n % cols) \notin {Null, Undefined}
                          THEN AddNeighborEdges(
                                   AddVertex(graph, getCardAt(n \div cols, n % cols)),
                                   getCardAt(n \div cols, n % cols),
                                   n \div cols, n % cols, 1)
                          ELSE graph}} : TRUE

buildCardGraph == BuildFromCell(EmptyGraph, 0)

\* the state after new GameEngine(r, c) when the shuffle drew js
Constructed(r, c, js) ==
    LET shuffled == AssignPositions(FisherYates(CreateCards(r * c), js, Len(CreateCards(r * c)) - 1), c)
    IN  /\ rows = r
        /\ cols = c
        /\ totalCards = r * c
        /\ cards = shuffled
        /\ cardHash = FillHash(EmptyHash, shuffled, 1)
        /\ cardGraph = buildCardGraph
        /\ flippedCards = <<>>
        /\ moveHistory = <<>>
        /\ moves = 0
        /\ score = 0
        /\ gameState = "playing"
        /\ timer = 0
        /\ scoreTree = <<>>
        /\ result = [success |-> TRUE, message |-> "constructed", card |-> Null]

\* no call is on record
NoProbe == [fn |-> "none", args |-> <<>>, out |-> Null]

Init ==
    /\ \E b \in Boards : \E js \in ExploredDraws(b[1] * b[2]) : Constructed(b[1], b[2], js)
    /\ probe = NoProbe

(***************************************************************************)
(* Operations.                                                             *)
(***************************************************************************)
\* a win check that is satisfied by one matched card
checkWinConditionSome(cs) == \E k \in 1..Len(cs) : cs[k].isMatched

checkWinCondition(cs) == \A k \in 1..Len(cs) : cs[k].isMatched

\* a time bonus that counts milliseconds as seconds
TimeBonusOfMillis(t) == Max(0, 1000 - t)

TimeBonus(t) == Max(0, 1000 - (t \div 1000))

\* a move bonus without its floor at 0
MoveBonusUnfloored(m) == 50 - m

MoveBonus(m) == Max(0, 50 - m)

\* calculateFinalScore(): the score after the bonuses were added
FinalScore(sc, t, m) == sc + TimeBonus(t) + MoveBonus(m)

Fail(msg) ==
    /\ result' = [success |-> FALSE, message |-> msg, card |-> Null]
    /\ UNCHANGED <<rows, cols, totalCards, cardGraph, cards, cardHash, flippedCards,
                   moveHistory, moves, score, gameState, timer, scoreTree>>

\* a comparison of the card objects instead of their symbols
PairMatchesByIdentity(cs, fl) == fl[1] = fl[2]

\* the two cards of a pending list of length 2 have equal symbols
PairMatches(cs, fl) == CardOf(cs, fl[1]).symbol = CardOf(cs, fl[2]).symbol

\* flipCard(row, col); elapsed is Date.now() - startTime, read by endGame.
\* Each \E over a one-element set names an intermediate value of the method.
flipCard(row, col, elapsed) ==
    IF row < 0 \/ row >= rows \/ col < 0 \/ col >= cols
    THEN Fail("Invalid card position")
    ELSE \E card \in {getCardAt(row, col)} :
      IF card = Undefined \/ card = Null
      THEN Fail("Card not found at specified position")
      ELSE IF CardOf(cards, card).isMatched
      THEN Fail("This card is already matched")
      ELSE IF CardOf(cards, card).isFlipped
      THEN Fail("This card is already flipped")
      ELSE
        \E flipped \in {CardFlip(cards, card)} :
        \E pending \in {Append(flippedCards, card)} :
        \E isMatch \in {Len(pending) = 2 /\ PairMatches(flipped, pending)} :
        \E matched \in {IF isMatch
                         THEN CardMatch(CardMatch(flipped, pending[1]), pending[2])
                         ELSE flipped} :
        \E won \in {isMatch /\ checkWinCondition(matched)} :
        \E base \in {IF isMatch THEN score + 10 ELSE score} :
          /\ moveHistory' = StackPush(moveHistory, [card |-> card, action |-> "flip"])
          /\ cards' = matched
          /\ moves' = moves + 1
          /\ flippedCards' = IF isMatch THEN <<>> ELSE pending
          /\ gameState' = IF won THEN "won" ELSE gameState
          /\ timer' = IF won THEN elapsed ELSE timer
          /\ score' = IF won THEN FinalScore(base, elapsed, moves + 1) ELSE base
          /\ scoreTree' = IF won
                          THEN BstInsert(scoreTree, <<"Player_", elapsed>>,
                                         FinalScore(base, elapsed, moves + 1))
                          ELSE scoreTree
          /\ result' = [success |-> TRUE, message |-> "", card |-> card]
          /\ UNCHANGED <<rows, cols, totalCards, cardGraph, cardHash>>

\* a flipBack that also takes the two flips off the move counter
flipBackCardsRevertingMoves ==
    IF Len(flippedCards) = 2
    THEN /\ cards' = CardFlip(CardFlip(cards, flippedCards[1]), flippedCards[2])
         /\ flippedCards' = <<>>
         /\ moves' = moves - 2
         /\ result' = [success |-> TRUE, message |-> "Cards flipped back", card |-> Null]
         /\ UNCHANGED <<rows, cols, totalCards, cardGraph, cardHash, moveHistory,
                        score, gameState, timer, scoreTree>>
    ELSE Fail("No cards to flip back")

flipBackCards ==
    IF Len(flippedCards) = 2
    THEN /\ cards' = CardFlip(CardFlip(cards, flippedCards[1]), flippedCards[2])
         /\ flippedCards' = <<>>
         /\ result' = [success |-> TRUE, message |-> "Cards flipped back", card |-> Null]
         /\ UNCHANGED <<rows, cols, totalCards, cardGraph, cardHash, moveHistory, moves,
                        score, gameState, timer, scoreTree>>
    ELSE Fail("No cards to flip back")

\* an undo that decrements moves before it looks at the popped entry
undoMoveCountingFirst ==
    LET popped   == StackPop(moveHistory)
        lastMove == popped[1]
    IN  IF ~StackIsEmpty(moveHistory) /\ lastMove.action = "flip"
        THEN /\ moveHistory' = popped[2]
             /\ cards' = CardFlip(cards, lastMove.card)
             /\ moves' = moves - 1
             /\ result' = [success |-> TRUE, message |-> "Move undone", card |-> Null]
             /\ UNCHANGED <<rows, cols, totalCards, cardGraph, cardHash, flippedCards,
                            score, gameState, timer, scoreTree>>
        ELSE /\ moveHistory' = popped[2]
             /\ moves' = moves - 1
             /\ result' = [success |-> FALSE, message |-> "No moves to undo", card |-> Null]
             /\ UNCHANGED <<rows, cols, totalCards, cardGraph, cards, cardHash, flippedCards,
                            score, gameState, timer, scoreTree>>

\* an undo that takes back the 10 points of a matched card
undoMoveRefunding ==
    LET popped   == StackPop(moveHistory)
        lastMove == popped[1]
    IN  IF ~StackIsEmpty(moveHistory) /\ lastMove.action = "flip"
        THEN /\ moveHistory' = popped[2]
             /\ cards' = CardFlip(cards, lastMove.card)
             /\ moves' = moves - 1
             /\ score' = IF CardOf(cards, lastMove.card).isMatched
                          THEN score - 10 ELSE score
             /\ result' = [success |-> TRUE, message |-> "Move undone", card |-> Null]
             /\ UNCHANGED <<rows, cols, totalCards, cardGraph, cardHash, flippedCards,
                            gameState, timer, scoreTree>>
        ELSE /\ moveHistory' = popped[2]
             /\ result' = [success |-> FALSE, message |-> "No moves to undo", card |-> Null]
             /\ UNCHANGED <<rows, cols, totalCards, cardGraph, cards, cardHash, flippedCards,
                            moves, score, gameState, timer, scoreTree>>

\* an undo that also takes back the match of the card it un-flips
undoMoveUnmatching ==
    LET popped   == StackPop(moveHistory)
        lastMove == popped[1]
    IN  IF ~StackIsEmpty(moveHistory) /\ lastMove.action = "flip"
        THEN /\ moveHistory' = popped[2]
             /\ cards' = [CardFlip(cards, lastMove.card)
                             EXCEPT ![CardIndex(cards, lastMove.card)].isMatched = FALSE]
             /\ moves' = moves - 1
             /\ result' = [success |-> TRUE, message |-> "Move undone", card |-> Null]
             /\ UNCHANGED <<rows, cols, totalCards, cardGraph, cardHash, flippedCards,
                            score, gameState, timer, scoreTree>>
        ELSE /\ moveHistory' = popped[2]
             /\ result' = [success |-> FALSE, message |-> "No moves to undo", card |-> Null]
             /\ UNCHANGED <<rows, cols, totalCards, cardGraph, cards, cardHash, flippedCards,
                            moves, score, gameState, timer, scoreTree>>

undoMove ==
    LET popped   == StackPop(moveHistory)
        lastMove == popped[1]
    IN  \* lastMove is null exactly when the stack was empty
        IF ~StackIsEmpty(moveHistory) /\ lastMove.action = "flip"
        THEN /\ moveHistory' = popped[2]
             /\ cards' = CardFlip(cards, lastMove.card)
             /\ moves' = moves - 1
             /\ result' = [success |-> TRUE, message |-> "Move undone", card |-> Null]
             /\ UNCHANGED <<rows, cols, totalCards, cardGraph, cardHash, flippedCards,
                            score, gameState, timer, scoreTree>>
        ELSE /\ moveHistory' = popped[2]
             /\ result' = [success |-> FALSE, message |-> "No moves to undo", card |-> Null]
             /\ UNCHANGED <<rows, cols, totalCards, cardGraph, cards, cardHash, flippedCards,
                            moves, score, gameState, timer, scoreTree>>

\* coordinates one step outside the board, on each of its four sides
OutsideArgs == {<<-1, 0>>, <<rows, 0>>, <<0, -1>>, <<0, cols>>}

\* a flip of a cell of the board
FlipStep ==
    /\ Len(moveHistory) < MaxMoves
    /\ Len(flippedCards) < MaxPending
    /\ \E row \in 0..(rows - 1) : \E col \in 0..(cols - 1) : \E elapsed \in Elapsed :
          flipCard(row, col, elapsed)
    /\ UNCHANGED probe

\* a flip with coordinates outside the board (endGame is not reached)
FlipOutsideStep ==
    /\ \E rc \in OutsideArgs : flipCard(rc[1], rc[2], 0)
    /\ UNCHANGED probe

FlipBackStep == flipBackCards /\ UNCHANGED probe

UndoStep == undoMove /\ UNCHANGED probe

Next == FlipStep \/ FlipOutsideStep \/ FlipBackStep \/ UndoStep

Spec == Init /\ [][Next]_vars

\* the same engine, constructed on any of the boards, odd ones included
InitOdd ==
    /\ \E b \in OddBoards : \E js \in ExploredDraws(2 * ((b[1] * b[2]) \div 2)) :
          Constructed(b[1], b[2], js)
    /\ probe = NoProbe

InitAny == Init \/ InitOdd

SpecAny == InitAny /\ [][Next]_vars

(***************************************************************************)
(* The fresh 4x4 game of src/test.js.                                      *)
(***************************************************************************)
Init4x4 ==
    /\ \E js \in ExploredDraws(16) : Constructed(4, 4, js)
    /\ probe = NoProbe

\* the cells of the 4x4 board that are flipped
Cells4x4 == {<<0, 0>>, <<0, 1>>, <<0, 2>>, <<3, 3>>}

Flip4x4Step ==
    /\ Len(moveHistory) < MaxMoves
    /\ Len(flippedCards) < MaxPending
    /\ \E rc \in Cells4x4 : flipCard(rc[1], rc[2], 0)
    /\ UNCHANGED probe

Next4x4 == Flip4x4Step \/ FlipOutsideStep \/ FlipBackStep \/ UndoStep

Spec4x4 == Init4x4 /\ [][Next4x4]_vars

(***************************************************************************)
(* Boards of the sizes the game offers, 3x3 up to 6x6 with an even number  *)
(* of cells: the smallest, the first with more than 16 cards, the largest. *)
(* The player flips three cells that are on all of them.                   *)
(***************************************************************************)
RangeBoards == {<<3, 4>>, <<4, 5>>, <<6, 6>>}

InitRange ==
    /\ \E b \in RangeBoards : \E js \in ExploredDraws(b[1] * b[2]) :
          Constructed(b[1], b[2], js)
    /\ probe = NoProbe

CellsRange == {<<0, 0>>, <<0, 1>>, <<2, 3>>}

FlipRangeStep ==
    /\ Len(moveHistory) < MaxMoves
    /\ Len(flippedCards) < MaxPending
    /\ \E rc \in CellsRange : flipCard(rc[1], rc[2], 0)
    /\ UNCHANGED probe

NextRange == FlipRangeStep \/ FlipBackStep \/ UndoStep

SpecRange == InitRange /\ [][NextRange]_vars

(***************************************************************************)
(* The 2x2 game with the arguments of the last flipCard call on record.    *)
(***************************************************************************)
FlipCallStep ==
    /\ Len(moveHistory) < MaxMoves
    /\ Len(flippedCards) < MaxPending
    /\ \E row \in 0..(rows - 1) : \E col \in 0..(cols - 1) :
          /\ flipCard(row, col, 0)
          /\ probe' = [fn |-> "flipCard", args |-> <<row, col>>, out |-> Null]

NextCalls == FlipCallStep \/ FlipBackStep \/ UndoStep

SpecCalls == Init /\ [][NextCalls]_vars

(***************************************************************************)
(* A 4x4 game played without undo: the player flips two cards, and calls   *)
(* flipBackCards after a mismatch before flipping again. The first card of *)
(* a pair is the first face-down card of the board, the second any cell.   *)
(* MaxMismatches bounds the number of pairs the player gets wrong.         *)
(***************************************************************************)
MaxMismatches == 1

\* the cells of the cards that are neither flipped nor matched
FreshCells ==
    {<<cards[k].position.row, cards[k].position.col>> :
        k \in {i \in 1..Len(cards) : ~cards[i].isFlipped /\ ~cards[i].isMatched}}

\* the first of the fresh cells in reading order
FirstFreshCell ==
    {rc \in FreshCells :
        \A other \in FreshCells :
            rc[1] * cols + rc[2] <= other[1] * cols + other[2]}

\* the pairs of flips so far that did not match: every flip that is neither
\* pending nor part of a match
Mismatches ==
    (moves - Cardinality({k \in 1..Len(cards) : cards[k].isMatched})
           - Len(flippedCards)) \div 2

\* flipping the cell would leave two cards of different symbols pending
WouldMismatch(rc) ==
    /\ Len(flippedCards) = 1
    /\ rc \in FreshCells
    /\ CardOf(cards, getCardAt(rc[1], rc[2])).symbol
          # CardOf(cards, flippedCards[1]).symbol

FlipNoUndoStep ==
    /\ Len(flippedCards) < 2
    /\ \E rc \in IF Len(flippedCards) = 0
                  THEN FirstFreshCell
                  ELSE (0..(rows - 1)) \X (0..(cols - 1)) :
          /\ WouldMismatch(rc) => Mismatches < MaxMismatches
          /\ \E elapsed \in Elapsed : flipCard(rc[1], rc[2], elapsed)
    /\ UNCHANGED probe

NextNoUndo == FlipNoUndoStep \/ FlipBackStep

SpecNoUndo == Init4x4 /\ [][NextNoUndo]_vars

(***************************************************************************)
(* calculateFinalScore applied on its own to a base score, an elapsed time *)
(* in milliseconds and a move count.                                       *)
(***************************************************************************)
MaxProbeMoves == 52

ProbeScores == {20, 80, 180}

ProbeElapsed == {0, 999, 1000, 999999, 1000000, 1000999, 1001000, 3600000}

\* a 2x2 engine whose score, timer and moves are set to sc, t and m
InitBonus ==
    \E js \in ExploredDraws(4) :
    \E sc \in ProbeScores : \E t \in ProbeElapsed : \E m \in 0..MaxProbeMoves :
    \E shuffled \in {AssignPositions(FisherYates(CreateCards(4), js, 3), 2)} :
        /\ rows = 2
        /\ cols = 2
        /\ totalCards = 4
        /\ cards = shuffled
        /\ cardHash = FillHash(EmptyHash, shuffled, 1)
        /\ cardGraph = buildCardGraph
        /\ flippedCards = <<>>
        /\ moveHistory = <<>>
        /\ moves = m
        /\ score = sc
        /\ gameState = "playing"
        /\ timer = t
        /\ scoreTree = <<>>
        /\ result = [success |-> TRUE, message |-> "constructed", card |-> Null]
        /\ probe = [fn |-> "calculateFinalScore", args |-> <<sc, t, m>>, out |-> Null]

\* calculateFinalScore(): the bonuses are added to this.score and the score
\* is inserted into the score tree
calculateFinalScore ==
    /\ score' = FinalScore(score, timer, moves)
    /\ scoreTree' = BstInsert(scoreTree, <<"Player_", timer>>,
                              FinalScore(score, timer, moves))
    /\ UNCHANGED <<rows, cols, totalCards, cardGraph, cards, cardHash, flippedCards,
                   moveHistory, moves, gameState, timer, result>>

\* the call, with this.score after it on record
ApplyFinalScore ==
    /\ probe.fn = "calculateFinalScore"
    /\ probe.out = Null
    /\ calculateFinalScore
    /\ probe' = [probe EXCEPT !.out = score']

NextBonus == ApplyFinalScore

SpecBonus == InitBonus /\ [][NextBonus]_vars

(***************************************************************************)
(* The score tree used on its own: entries are inserted, at most           *)
(* MaxInserts of them, and getTopScores is called with a limit or with     *)
(* none (the default limit is 10).                                         *)
(***************************************************************************)
MaxInserts == 4

TreeScores == {75, 100, 150}

DefaultLimit == 10

TreeLimits == 0..(MaxInserts + 1) \cup {DefaultLimit}

TreeInsertStep ==
    /\ Len(scoreTree) < MaxInserts
    /\ \E sc \in TreeScores :
          /\ scoreTree' = BstInsert(scoreTree, <<"Player_", Len(scoreTree) + 1>>, sc)
          /\ probe' = [fn |-> "insert", args |-> <<sc>>, out |-> Null]
    /\ UNCHANGED <<rows, cols, totalCards, cardGraph, cards, cardHash, flippedCards, moveHistory,
                   moves, score, gameState, timer, result>>

TopScoresStep ==
    /\ \E limit \in TreeLimits :
          probe' = [fn |-> "getTopScores", args |-> <<limit>>,
                    out |-> getTopScores(scoreTree, limit)]
    /\ UNCHANGED engine

NextTree == TreeInsertStep \/ TopScoresStep

SpecTree == Init /\ [][NextTree]_vars

(***************************************************************************)
(* The hash table used on its own, starting from the index of a 2x2 board: *)
(* keys are set, at most MaxSets times in all, and looked up.  "ab" and    *)
(* "bx" hash to the same bucket; "0-0" is a key the board has set;         *)
(* "key4" is never set.                                                    *)
(***************************************************************************)
MaxSets == 3

KeyAb == <<97, 98>>

KeyBx == <<98, 120>>

Key1 == <<107, 101, 121, 49>>

Key4 == <<107, 101, 121, 52>>

HashKeys == {KeyAb, KeyBx, Key1, Key(0, 0)}

HashValues == {100, 200}

\* the entries of the table: bucket index, place in the chain
HashEntries(keyMap) ==
    UNION {{<<index, i>> : i \in 1..Len(keyMap[index])} : index \in DOMAIN keyMap}

HashSetStep ==
    /\ Cardinality(HashEntries(cardHash)) < Len(cards) + MaxSets
    /\ \E key \in HashKeys : \E value \in HashValues :
          /\ cardHash' = HashSet(cardHash, key, value)
          /\ probe' = [fn |-> "set", args |-> <<key, value>>, out |-> Null]
    /\ UNCHANGED <<rows, cols, totalCards, cardGraph, cards, flippedCards, moveHistory,
                   moves, score, gameState, timer, scoreTree, result>>

HashGetStep ==
    /\ \E key \in HashKeys \cup {Key4, Key(1, 1)} :
          probe' = [fn |-> "get", args |-> <<key>>, out |-> HashGet(cardHash, key)]
    /\ UNCHANGED engine

NextHash == HashSetStep \/ HashGetStep

SpecHash == Init /\ [][NextHash]_vars

(***************************************************************************)
(* The analysis functions called on freshly built boards of the sizes the  *)
(* game offers.                                                            *)
(***************************************************************************)
\* bfs(startVertex, targetVertex) up to the while loop, called by fn(args);
\* pc is the position in bfs and iterations counts the loop bodies run
BfsCall(fn, args, startVertex, targetVertex) ==
    probe' = [fn |-> fn, args |-> args, out |-> Null, pc |-> "loop",
              start |-> startVertex, target |-> targetVertex,
              queue |-> QueueEnqueue(<<>>, startVertex),
              visited |-> {startVertex},
              parent |-> <<>>,
              iterations |-> 0]

\* the while loop of bfs: its test and, when the queue holds a vertex, one
\* run of its body
BfsLoopStep ==
    /\ probe.fn \in {"bfs", "findShortestPath"}
    /\ probe.pc = "loop"
    /\ IF QueueIsEmpty(probe.queue)
       THEN probe' = [probe EXCEPT !.pc = "return null", !.out = Null]
       ELSE \E d \in {QueueDequeue(probe.queue)} :
              IF d[1] = probe.target
              THEN probe' = [probe EXCEPT
                                !.queue = d[2],
                                !.iterations = @ + 1,
                                !.pc = "return path",
                                !.out = ReconstructPath(probe.parent, probe.start,
                                                        probe.target)]
              ELSE \E st \in {VisitNeighbors(GetNeighbors(cardGraph, d[1]), 1, d[1],
                                              [queue |-> d[2],
                                               visited |-> probe.visited,
                                               parent |-> probe.parent])} :
                     probe' = [probe EXCEPT
                                  !.queue = st.queue,
                                  !.visited = st.visited,
                                  !.parent = st.parent,
                                  !.iterations = @ + 1]
    /\ UNCHANGED engine

\* findShortestPath(startRow, startCol, endRow, endCol)
findShortestPath(startRow, startCol, endRow, endCol) ==
    /\ \E startCard \in {getCardAt(startRow, startCol)} :
       \E endCard \in {getCardAt(endRow, endCol)} :
          IF startCard \in {Null, Undefined} \/ endCard \in {Null, Undefined}
          THEN probe' = [fn |-> "findShortestPath",
                         args |-> <<startRow, startCol, endRow, endCol>>,
                         out |-> Null, pc |-> "return null",
                         start |-> startCard, target |-> endCard,
                         queue |-> <<>>, visited |-> {}, parent |-> <<>>,
                         iterations |-> 0]
          ELSE BfsCall("findShortestPath", <<startRow, startCol, endRow, endCol>>,
                       startCard, endCard)
    /\ UNCHANGED engine

FindPathStep ==
    /\ probe = NoProbe
    /\ \E startRow, endRow \in 0..(rows - 1) : \E startCol, endCol \in 0..(cols - 1) :
        findShortestPath(startRow, startCol, endRow, endCol)

\* getConnectedComponents() up to its for loop.  k is the index of the card
\* the loop is at, frames the calls of dfs in progress, innermost last: each
\* has its vertex, the index i of the neighbor its for loop is at, and its
\* component so far
getConnectedComponents ==
    /\ probe' = [fn |-> "getConnectedComponents", args |-> <<>>, out |-> Null,
                 pc |-> "loop", k |-> 1, frames |-> <<>>, visited |-> {},
                 components |-> <<>>]
    /\ UNCHANGED engine

\* dfs(vertex, visited) up to its for loop, called under the frames given
DfsCall(frames, vertex) ==
    Append(frames, [vertex |-> vertex, i |-> 1, component |-> <<vertex>>])

\* one step of getConnectedComponents: outside dfs, the test of the for loop
\* over the cards and the call of dfs for an unvisited card; inside dfs, one
\* neighbor of the innermost call, or its return
ComponentsLoopStep ==
    /\ probe.fn = "getConnectedComponents"
    /\ probe.pc = "loop"
    /\ IF Len(probe.frames) = 0
       THEN IF probe.k > Len(cards)
            THEN probe' = [probe EXCEPT !.pc = "return", !.out = probe.components]
            ELSE IF cards[probe.k].id \in probe.visited
                 THEN probe' = [probe EXCEPT !.k = @ + 1]
                 ELSE probe' = [probe EXCEPT
                                   !.frames = DfsCall(@, cards[probe.k].id),
                                   !.visited = @ \cup {cards[probe.k].id}]
       ELSE \E top \in {probe.frames[Len(probe.frames)]} :
            \E callers \in {SubSeq(probe.frames, 1, Len(probe.frames) - 1)} :
            \E neighbors \in {GetNeighbors(cardGraph, top.vertex)} :
              IF top.i > Len(neighbors)
              THEN IF Len(callers) = 0
                   THEN probe' = [probe EXCEPT
                                     !.frames = callers,
                                     !.components = Append(@, top.component),
                                     !.k = @ + 1]
                   ELSE probe' = [probe EXCEPT
                                     !.frames = [callers EXCEPT
                                                   ![Len(callers)].component =
                                                       @ \o top.component]]
              ELSE IF neighbors[top.i] \in probe.visited
                   THEN probe' = [probe EXCEPT !.frames[Len(probe.frames)].i = @ + 1]
                   ELSE probe' = [probe EXCEPT
                                     !.frames = DfsCall(
                                                   [@ EXCEPT ![Len(@)].i = top.i + 1],
                                                   neighbors[top.i]),
                                     !.visited = @ \cup {neighbors[top.i]}]
    /\ UNCHANGED engine

\* a call begins on the board as constructed, and one call is followed to its
\* return: the calls read the engine and change nothing of it
ComponentsStep == probe = NoProbe /\ getConnectedComponents

NextQueries == ComponentsStep \/ ComponentsLoopStep \/ FindPathStep \/ BfsLoopStep

SpecQueries == InitRange /\ [][NextQueries]_vars

(***************************************************************************)
(* The Graph on its own: vertices and edges are added to the graph of a    *)
(* small board, then bfs is called for vertices in it and out of it.       *)
(***************************************************************************)
\* addVertex and addEdge are explored while fewer than this many neighbor
\* entries were added to the graph as built
MaxAddedEntries == 4
\* vertices given to addVertex: a card id and a fresh vertex
VertexInputs == {0, 7}
\* edges given to addEdge: between two cards both ways, between fresh
\* vertices, from a card to a fresh vertex
EdgeInputs == {<<0, 1>>, <<1, 0>>, <<7, 8>>, <<0, 7>>}
\* start and target vertices given to bfs; 9 is never a vertex
BfsInputs == {0, 3, 7, 9}

\* the entries of the neighbor lists
NeighborEntries(adjacencyList) ==
    UNION {{<<vertex, i>> : i \in 1..Len(adjacencyList[vertex])} :
              vertex \in DOMAIN adjacencyList}

\* no analysis call is on record: the graph is as built or as edited
NoQuery == probe.fn \in {"none", "addVertex", "addEdge"}

GraphBelowBound ==
    Cardinality(NeighborEntries(cardGraph))
        < Cardinality(NeighborEntries(buildCardGraph)) + MaxAddedEntries

AddVertexStep ==
    /\ NoQuery
    /\ GraphBelowBound
    /\ \E vertex \in VertexInputs :
          /\ cardGraph' = AddVertex(cardGraph, vertex)
          /\ probe' = [fn |-> "addVertex", args |-> <<vertex>>, out |-> Null]
    /\ UNCHANGED <<rows, cols, totalCards, cards, cardHash, flippedCards,
                   moveHistory, moves, score, gameState, timer, scoreTree, result>>

AddEdgeStep ==
    /\ NoQuery
    /\ GraphBelowBound
    /\ \E edge \in EdgeInputs :
          /\ cardGraph' = AddEdge(cardGraph, edge[1], edge[2])
          /\ probe' = [fn |-> "addEdge", args |-> edge, out |-> Null]
    /\ UNCHANGED <<rows, cols, totalCards, cards, cardHash, flippedCards,
                   moveHistory, moves, score, gameState, timer, scoreTree, result>>

BfsStep ==
    /\ NoQuery
    /\ \E startVertex, targetVertex \in BfsInputs :
          BfsCall("bfs", <<startVertex, targetVertex>>, startVertex, targetVertex)
    /\ UNCHANGED engine

NextGraph == AddVertexStep \/ AddEdgeStep \/ BfsStep \/ BfsLoopStep \/ FindPathStep

SpecGraph == InitAny /\ [][NextGraph]_vars

(***************************************************************************)
(* The Stack on its own: move records are pushed on the move history of a  *)
(* fresh game, popped and peeked at, as src/test.js does with a Stack, and *)
(* the stack is cleared.                                                   *)
(***************************************************************************)
\* pushes are explored while the stack is shorter than this
MaxStackSize == 3
\* the elements pushed: the records flipCard pushes, for three cards
StackElements == {[card |-> id, action |-> "flip"] : id \in 0..2}

StackPushStep ==
    /\ StackSize(moveHistory) < MaxStackSize
    /\ \E element \in StackElements :
          /\ moveHistory' = StackPush(moveHistory, element)
          /\ probe' = [fn |-> "push", args |-> <<element>>, out |-> Null]
    /\ UNCHANGED <<rows, cols, totalCards, cardGraph, cards, cardHash, flippedCards,
                   moves, score, gameState, timer, scoreTree, result>>

StackPopStep ==
    /\ \E popped \in {StackPop(moveHistory)} :
          /\ moveHistory' = popped[2]
          /\ probe' = [fn |-> "pop", args |-> <<>>, out |-> popped[1]]
    /\ UNCHANGED <<rows, cols, totalCards, cardGraph, cards, cardHash, flippedCards,
                   moves, score, gameState, timer, scoreTree, result>>

StackPeekStep ==
    /\ probe' = [fn |-> "peek", args |-> <<>>, out |-> StackPeek(moveHistory)]
    /\ UNCHANGED engine

\* Stack.clear(): this.items = []
StackClear(items) == <<>>

StackClearStep ==
    /\ moveHistory' = StackClear(moveHistory)
    /\ probe' = [fn |-> "clear", args |-> <<>>, out |-> Null]
    /\ UNCHANGED <<rows, cols, totalCards, cardGraph, cards, cardHash, flippedCards,
                   moves, score, gameState, timer, scoreTree, result>>

NextStack == StackPushStep \/ StackPopStep \/ StackPeekStep \/ StackClearStep

SpecStack == Init /\ [][NextStack]_vars

(***************************************************************************)
(* The calls that report on a game: getGameState, getHighScores, the two   *)
(* sorts, the hint of the server and of the CLI, and the two analyses,     *)
(* called between the moves of a game on the small board.                  *)
(***************************************************************************)
\* getGameState(): the snapshot of the cards and the counters
getGameState ==
    [cards |-> [k \in 1..Len(cards) |->
                   [id |-> cards[k].id, symbol |-> cards[k].symbol,
                    isFlipped |-> cards[k].isFlipped,
                    isMatched |-> cards[k].isMatched,
                    position |-> cards[k].position]],
     moves |-> moves, score |-> score, gameState |-> gameState, timer |-> timer,
     flippedCards |-> Len(flippedCards)]

\* getHighScores()
getHighScores == getTopScores(scoreTree, DefaultLimit)

\* the order a.symbol.localeCompare(b.symbol) gives the eight symbols: the
\* collation puts the geometric shapes before the star and the card suits,
\* each group by code point (square, triangle, circle, star, spade, club,
\* heart, diamond)
SymbolRank(symbol) ==
    CASE symbol = "square" -> 1 [] symbol = "triangle" -> 2
      [] symbol = "circle" -> 3 [] symbol = "star" -> 4
      [] symbol = "spade" -> 5 [] symbol = "club" -> 6
      [] symbol = "heart" -> 7 [] symbol = "diamond" -> 8

\* the comparator of sortCardsBySymbol
CompareSymbols(a, b) == SymbolRank(a.symbol) - SymbolRank(b.symbol)

\* the comparator of sortCardsByPosition
ComparePositions(a, b) ==
    IF a.position.row # b.position.row
    THEN a.position.row - b.position.row
    ELSE a.position.col - b.position.col

\* Array.prototype.sort on a copy of the cards: x goes before the first
\* element of the sorted part that compares greater (a stable sort)
RECURSIVE InsertCard(_, _, _, _)
InsertCard(sorted, x, i, bySymbol) ==
    IF i > Len(sorted) THEN Append(sorted, x)
    ELSE IF (IF bySymbol THEN CompareSymbols(sorted[i], x)
                         ELSE ComparePositions(sorted[i], x)) > 0
         THEN SubSeq(sorted, 1, i - 1) \o <<x>> \o SubSeq(sorted, i, Len(sorted))
         ELSE InsertCard(sorted, x, i + 1, bySymbol)

RECURSIVE SortCardsFrom(_, _, _, _)
SortCardsFrom(cs, k, sorted, bySymbol) ==
    IF k > Len(cs) THEN sorted
    ELSE CHOOSE done \in
            {SortCardsFrom(cs, k + 1, next, bySymbol) :
                next \in {InsertCard(sorted, cs[k], 1, bySymbol)}} : TRUE

sortCardsBySymbol == SortCardsFrom(cards, 1, <<>>, TRUE)

sortCardsByPosition == SortCardsFrom(cards, 1, <<>>, FALSE)

\* the keys of symbolCounts in the order they were created: the symbols of
\* the cards of cs from the k-th on that are not among the keys yet
RECURSIVE SymbolKeys(_, _, _)
SymbolKeys(cs, k, keys) ==
    IF k > Len(cs) THEN keys
    ELSE IF \E i \in 1..Len(keys) : keys[i] = cs[k].symbol
         THEN SymbolKeys(cs, k + 1, keys)
         ELSE SymbolKeys(cs, k + 1, Append(keys, cs[k].symbol))

\* symbolCounts[symbol]
SymbolCount(cs, symbol) == Cardinality({k \in 1..Len(cs) : cs[k].symbol = symbol})

\* a hint that names the symbol of the first unmatched card, paired or not
generateHintOfFirstCard(cs) ==
    LET unmatchedCards == SelectSeq(cs, LAMBDA card : ~card.isMatched)
        hintCards      == SliceFromStart(
                              SelectSeq(unmatchedCards,
                                        LAMBDA card : card.symbol = unmatchedCards[1].symbol),
                              2)
    IN  IF Len(unmatchedCards) = 0
        THEN [message |-> <<"No hints needed - you've matched all cards!">>, cards |-> <<>>]
        ELSE [message |-> <<"Look for the symbol ", unmatchedCards[1].symbol>>,
              symbol |-> unmatchedCards[1].symbol,
              cards |-> [i \in 1..Len(hintCards) |->
                            [row |-> hintCards[i].position.row,
                             col |-> hintCards[i].position.col]]]

\* generateHint(game) of the server; showHint() of the CLI prints the same
generateHint(cs) ==
    LET unmatchedCards == SelectSeq(cs, LAMBDA card : ~card.isMatched)
        availablePairs == SelectSeq(SymbolKeys(unmatchedCards, 1, <<>>),
                                    LAMBDA symbol : SymbolCount(unmatchedCards, symbol) >= 2)
        hintCards      == SliceFromStart(
                              SelectSeq(unmatchedCards,
                                        LAMBDA card : card.symbol = availablePairs[1]),
                              2)
    IN  IF Len(unmatchedCards) = 0
        THEN [message |-> <<"No hints needed - you've matched all cards!">>, cards |-> <<>>]
        ELSE IF Len(availablePairs) > 0
        THEN [message |-> <<"Look for the symbol ", availablePairs[1]>>,
              symbol |-> availablePairs[1],
              cards |-> [i \in 1..Len(hintCards) |->
                            [row |-> hintCards[i].position.row,
                             col |-> hintCards[i].position.col]]]
        ELSE [message |-> <<"No obvious pairs found. Keep exploring!">>, cards |-> <<>>]

\* flips are explored in this specification while the move history is
\* shorter than this
MaxReadMoves == 1

\* an analysis is between its first and its last step
CallInProgress ==
    /\ probe.fn \in {"bfs", "findShortestPath", "getConnectedComponents"}
    /\ probe.pc = "loop"

\* the moves of the game; a move takes the last report off the record
MoveBetweenReadsStep ==
    /\ ~CallInProgress
    /\ \/ /\ Len(moveHistory) < MaxReadMoves
          /\ Len(flippedCards) < MaxPending
          /\ \E row \in 0..(rows - 1) : \E col \in 0..(cols - 1) :
             \E elapsed \in Elapsed :
                flipCard(row, col, elapsed)
       \/ flipBackCards
       \/ undoMove
    /\ probe' = NoProbe

GetStateStep ==
    /\ probe = NoProbe
    /\ probe' = [fn |-> "getGameState", args |-> <<>>, out |-> getGameState]
    /\ UNCHANGED engine

HighScoresStep ==
    /\ probe = NoProbe
    /\ probe' = [fn |-> "getHighScores", args |-> <<>>, out |-> getHighScores]
    /\ UNCHANGED engine

\* sorts that order the cards array itself instead of a copy
SortInPlaceStep ==
    /\ probe = NoProbe
    /\ \/ /\ probe' = [fn |-> "sortCardsBySymbol", args |-> <<>>,
                        out |-> sortCardsBySymbol]
          /\ cards' = sortCardsBySymbol
       \/ /\ probe' = [fn |-> "sortCardsByPosition", args |-> <<>>,
                        out |-> sortCardsByPosition]
          /\ cards' = sortCardsByPosition
    /\ UNCHANGED <<rows, cols, totalCards, cardGraph, cardHash, flippedCards,
                   moveHistory, moves, score, gameState, timer, scoreTree, result>>

SortStep ==
    /\ probe = NoProbe
    /\ \/ probe' = [fn |-> "sortCardsBySymbol", args |-> <<>>, out |-> sortCardsBySymbol]
       \/ probe' = [fn |-> "sortCardsByPosition", args |-> <<>>,
                    out |-> sortCardsByPosition]
    /\ UNCHANGED engine

HintStep ==
    /\ probe = NoProbe
    /\ probe' = [fn |-> "generateHint", args |-> <<>>, out |-> generateHint(cards)]
    /\ UNCHANGED engine

\* arguments of findShortestPath: across the board, from a cell to itself,
\* to a cell outside the board
PathInputs == {<<0, 0, 1, 1>>, <<0, 1, 0, 1>>, <<0, 0, 2, 0>>}

FindPathReadStep ==
    /\ probe = NoProbe
    /\ \E a \in PathInputs : findShortestPath(a[1], a[2], a[3], a[4])

NextReads ==
    \/ MoveBetweenReadsStep
    \/ GetStateStep \/ HighScoresStep \/ SortStep \/ HintStep
    \/ ComponentsStep \/ ComponentsLoopStep \/ FindPathReadStep \/ BfsLoopStep

SpecReads == Init /\ [][NextReads]_vars

(***************************************************************************)
(* The CLI session: the main menu starts games (this.game = new            *)
(* GameEngine) and shows the high scores of this.game; playGame prompts    *)
(* for a choice while the game is playing and handleGameChoice carries it  *)
(* out.  probe holds the position in handleGameChoice: "flipped" after     *)
(* its call of flipCard, "prompt" when it has returned.                    *)
(***************************************************************************)
\* the CLI waits for input: at the prompt of playGame or in the main menu
AtPrompt == probe.pc = "prompt"

\* flips of a game are explored while it has waited fewer times than this
MaxWaits == 2

\* waitForTimeout(2000): the busy wait after a failed flip and before the
\* flip back of a mismatch
WaitMs == 2000

\* the session between two steps: pc is "prompt" while the CLI waits for a
\* choice and "flipped" between the return of flipCard and the next prompt;
\* waited is the time the game has spent in waitForTimeout, in milliseconds
CliAt(pc, waited) ==
    [fn |-> "cli", args |-> <<>>, out |-> Null, pc |-> pc, waited |-> waited]

\* the session once startNewGame has constructed its first game
InitCli ==
    /\ \E b \in Boards : \E js \in ExploredDraws(b[1] * b[2]) : Constructed(b[1], b[2], js)
    /\ probe = CliAt("prompt", 0)

\* handleGameChoice("row col") up to the return of flipCard; the time since
\* the start of the game is at least the time the game has waited
CliFlipStep ==
    /\ AtPrompt
    /\ gameState = "playing"
    /\ Len(moveHistory) < MaxMoves
    /\ probe.waited < MaxWaits * WaitMs
    /\ \E row \in 0..(rows - 1) : \E col \in 0..(cols - 1) :
       \E elapsed \in {e \in Elapsed : e >= probe.waited} :
          /\ flipCard(row, col, elapsed)
          /\ probe' = CliAt("flipped", probe.waited)

\* the rest of handleGameChoice("row col") that leaves a mismatch pending
CliAfterFlipKeepsPair ==
    /\ probe.pc = "flipped"
    /\ UNCHANGED engine
    /\ probe' = CliAt("prompt", IF result.success /\ Len(flippedCards) # 2
                                THEN probe.waited ELSE probe.waited + WaitMs)

\* the rest of handleGameChoice("row col"): with two cards pending after a
\* successful flip, the pending list is emptied if their symbols are equal
\* and flipBackCards is called after a wait if not; after a failed flip it
\* waits
CliAfterFlipStep ==
    /\ probe.pc = "flipped"
    /\ IF result.success
       THEN IF Len(flippedCards) = 2
            THEN IF PairMatches(cards, flippedCards)
                 THEN /\ flippedCards' = <<>>
                      /\ UNCHANGED <<rows, cols, totalCards, cardGraph, cards, cardHash,
                                     moveHistory, moves, score, gameState, timer,
                                     scoreTree, result>>
                      /\ probe' = CliAt("prompt", probe.waited)
                 ELSE /\ flipBackCards
                      /\ probe' = CliAt("prompt", probe.waited + WaitMs)
            ELSE /\ UNCHANGED engine
                 /\ probe' = CliAt("prompt", probe.waited)
       ELSE /\ UNCHANGED engine
            /\ probe' = CliAt("prompt", probe.waited + WaitMs)

\* handleGameChoice("undo")
CliUndoStep ==
    /\ AtPrompt
    /\ gameState = "playing"
    /\ undoMove
    /\ probe' = CliAt("prompt", probe.waited)

\* handleGameChoice("hint")
CliHintStep ==
    /\ AtPrompt
    /\ gameState = "playing"
    /\ probe' = CliAt("prompt", probe.waited)
    /\ UNCHANGED engine

\* handleGameChoice("quit")
CliQuitStep ==
    /\ AtPrompt
    /\ gameState = "playing"
    /\ gameState' = "lost"
    /\ probe' = CliAt("prompt", probe.waited)
    /\ UNCHANGED <<rows, cols, totalCards, cardGraph, cards, cardHash, flippedCards,
                   moveHistory, moves, score, scoreTree, timer, result>>

\* getCardAt on the engine under construction: rows r, cols c, hash keyMap
CardAtOf(r, c, keyMap, row, col) ==
    IF row < 0 \/ row >= r \/ col < 0 \/ col >= c THEN Null
    ELSE HashGet(keyMap, Key(row, col))

\* the forEach over the directions of buildCardGraph, on the engine under
\* construction
RECURSIVE NeighborEdgesOf(_, _, _, _, _, _, _, _)
NeighborEdgesOf(r, c, keyMap, graph, current, row, col, d) ==
    IF d > Len(Directions) THEN graph
    ELSE CHOOSE built \in
            {NeighborEdgesOf(r, c, keyMap, next, current, row, col, d + 1) :
                next \in {IF CardAtOf(r, c, keyMap, row + Directions[d][1],
                                      col + Directions[d][2]) \notin {Null, Undefined}
                          THEN AddEdge(graph, current,
                                       CardAtOf(r, c, keyMap, row + Directions[d][1],
                                                col + Directions[d][2]))
                          ELSE graph}} : TRUE

\* the loops of buildCardGraph over the cells, on the engine under construction
RECURSIVE GraphFromCellOf(_, _, _, _, _)
GraphFromCellOf(r, c, keyMap, graph, n) ==
    IF n >= r * c THEN graph
    ELSE CHOOSE built \in
            {GraphFromCellOf(r, c, keyMap, next, n + 1) :
                next \in {IF CardAtOf(r, c, keyMap, n \div c, n % c) \notin {Null, Undefined}
                          THEN NeighborEdgesOf(r, c, keyMap,
                                   AddVertex(graph, CardAtOf(r, c, keyMap, n \div c, n % c)),
                                   CardAtOf(r, c, keyMap, n \div c, n % c),
                                   n \div c, n % c, 1)
                          ELSE graph}} : TRUE

\* what the constructor computes for a board of Boards and draws js of
\* ExploredDraws: the shuffled cards, the hash table and the graph (computed
\* once for all the steps that construct an engine)
ConstructedParts ==
    UNION {{LET created  == CreateCards(b[1] * b[2])
                shuffled == AssignPositions(FisherYates(created, js, Len(created) - 1),
                                            b[2])
                keyMap   == FillHash(EmptyHash, shuffled, 1)
            IN  [board |-> b, draws |-> js,
                 cards |-> shuffled,
                 cardHash |-> keyMap,
                 cardGraph |-> GraphFromCellOf(b[1], b[2], keyMap, EmptyGraph, 0)] :
               js \in ExploredDraws(b[1] * b[2])} : b \in Boards}

\* new GameEngine(r, c) taking the place of the engine in the variables, the
\* shuffle drawing js
NewGameEngine(r, c, js) ==
    \E parts \in {p \in ConstructedParts : p.board = <<r, c>> /\ p.draws = js} :
        /\ rows' = r
        /\ cols' = c
        /\ totalCards' = r * c
        /\ cards' = parts.cards
        /\ cardHash' = parts.cardHash
        /\ cardGraph' = parts.cardGraph
        /\ flippedCards' = <<>>
        /\ moveHistory' = <<>>
        /\ moves' = 0
        /\ score' = 0
        /\ gameState' = "playing"
        /\ timer' = 0
        /\ scoreTree' = <<>>
        /\ result' = [success |-> TRUE, message |-> "constructed", card |-> Null]

\* startNewGame(): this.game = new GameEngine(rows, cols)
startNewGame(r, c, js) == NewGameEngine(r, c, js)

\* main menu, choice 1, once playGame has returned
CliStartNewGameStep ==
    /\ AtPrompt
    /\ gameState # "playing"
    /\ \E b \in Boards : \E js \in ExploredDraws(b[1] * b[2]) :
          startNewGame(b[1], b[2], js)
    /\ probe' = CliAt("prompt", 0)

\* main menu, choice 2: showHighScores() lists this.game.getHighScores()
CliHighScoresStep ==
    /\ AtPrompt
    /\ gameState # "playing"
    /\ probe' = CliAt("prompt", probe.waited)
    /\ UNCHANGED engine

NextCli ==
    \/ CliFlipStep \/ CliAfterFlipStep \/ CliUndoStep \/ CliHintStep \/ CliQuitStep
    \/ CliStartNewGameStep \/ CliHighScoresStep

SpecCli == InitCli /\ [][NextCli]_vars

(***************************************************************************)
(* The server: this.games maps a gameId to its engine.  The variables of   *)
(* the engine hold the game that the requests address at the moment, under *)
(* probe.current; probe.games holds the engines of the other ids,          *)
(* probe.now the clock in milliseconds and probe.issued the gameIds that   *)
(* were returned to clients, in order.                                     *)
(***************************************************************************)
\* requests are served while fewer than this many were served
MaxRequests == 4

\* Date.now().toString()
GameIdAt(now) == ToString(now)

\* Map.prototype.delete and Map.prototype.set on a function of the ids
MapDelete(map, key) == [k \in DOMAIN map \ {key} |-> map[k]]

MapSet(map, key, value) ==
    [k \in DOMAIN map \cup {key} |-> IF k = key THEN value ELSE map[k]]

\* the ids that this.games holds
GameIds == DOMAIN probe.games \cup {probe.current}

\* the server once its first game was created, at time 0
InitServer ==
    /\ \E b \in Boards : \E js \in ExploredDraws(b[1] * b[2]) : Constructed(b[1], b[2], js)
    /\ probe = [fn |-> "server", args |-> <<>>, out |-> Null,
                games |-> <<>>, now |-> 0, served |-> 1,
                current |-> GameIdAt(0), issued |-> <<GameIdAt(0)>>]

\* GET /api/game/new at time t: the new engine is set under the id made of
\* the clock, in the place of an engine that is there under that id
ServerNewGameStep ==
    /\ probe.served < MaxRequests
    /\ \E t \in {probe.now, probe.now + 1} :
       \E b \in Boards : \E js \in ExploredDraws(b[1] * b[2]) :
       \E gameId \in {GameIdAt(t)} :
          /\ NewGameEngine(b[1], b[2], js)
          /\ probe' = [probe EXCEPT
                          !.now = t,
                          !.served = @ + 1,
                          !.current = gameId,
                          !.issued = Append(@, gameId),
                          !.games = IF gameId = probe.current
                                    THEN MapDelete(@, gameId)
                                    ELSE MapSet(MapDelete(@, gameId), probe.current, engine)]

\* this.games.get(gameId) of a request that addresses another game than the
\* last one did: its engine comes into the variables
ServerGetGameStep ==
    \E gameId \in DOMAIN probe.games : \E game \in {probe.games[gameId]} :
        /\ rows' = game[1]
        /\ cols' = game[2]
        /\ totalCards' = game[3]
        /\ cardGraph' = game[4]
        /\ cards' = game[5]
        /\ cardHash' = game[6]
        /\ flippedCards' = game[7]
        /\ moveHistory' = game[8]
        /\ moves' = game[9]
        /\ score' = game[10]
        /\ gameState' = game[11]
        /\ timer' = game[12]
        /\ scoreTree' = game[13]
        /\ result' = game[14]
        /\ probe' = [probe EXCEPT
                        !.current = gameId,
                        !.games = MapSet(MapDelete(@, gameId), probe.current, engine)]

\* POST /api/game/:gameId/flip
ServerFlipStep ==
    /\ probe.served < MaxRequests
    /\ \E row \in 0..(rows - 1) : \E col \in 0..(cols - 1) :
       \E elapsed \in Elapsed :
          flipCard(row, col, elapsed)
    /\ probe' = [probe EXCEPT !.served = @ + 1]

\* POST /api/game/:gameId/undo
ServerUndoStep ==
    /\ probe.served < MaxRequests
    /\ undoMove
    /\ probe' = [probe EXCEPT !.served = @ + 1]

\* POST /api/game/:gameId/flipback
ServerFlipBackStep ==
    /\ probe.served < MaxRequests
    /\ flipBackCards
    /\ probe' = [probe EXCEPT !.served = @ + 1]

NextServer ==
    \/ ServerNewGameStep \/ ServerGetGameStep
    \/ ServerFlipStep \/ ServerUndoStep \/ ServerFlipBackStep

SpecServer == InitServer /\ [][NextServer]_vars

(***************************************************************************)
(* The browser client and the server, by turns of the event loop.  probe   *)
(* holds the client (gameId, screen, isProcessing, the callbacks that      *)
(* setTimeout has scheduled and that have not started: timeouts), the      *)
(* requests under way (tasks: sent, then handled by the server, then       *)
(* answered to the handler or callback that awaits them) and the server    *)
(* (games, current, now, as in the server above).  sent counts the         *)
(* requests that the user has caused.                                      *)
(***************************************************************************)
\* gameState.cards.filter(card => card.isFlipped && !card.isMatched).length
FlippedUnmatched(cs) ==
    Cardinality({k \in 1..Len(cs) : cs[k].isFlipped /\ ~cs[k].isMatched})

\* `${this.gameId}` while this.gameId is null
NoGameId == "null"

\* a request of the client under way: the id in its URL, the body of a flip,
\* and, once the server has handled it, what the response holds
Request(kind, gameId, row, col) ==
    [kind |-> kind, stage |-> "sent", gameId |-> gameId, row |-> row, col |-> col,
     ok |-> FALSE, success |-> FALSE, flipped |-> 0, newId |-> NoGameId]

RemoveAt(seq, i) == SubSeq(seq, 1, i - 1) \o SubSeq(seq, i + 1, Len(seq))

\* the requests that the server has not handled, and those it has
SentTasks == {i \in 1..Len(probe.tasks) : probe.tasks[i].stage = "sent"}

HandledTasks == {i \in 1..Len(probe.tasks) : probe.tasks[i].stage = "handled"}

\* the client once startNewGame has shown the board of its first game,
\* created at time 0
InitClient ==
    /\ \E b \in Boards : \E js \in ExploredDraws(b[1] * b[2]) : Constructed(b[1], b[2], js)
    /\ probe = [fn |-> "client", args |-> <<>>, out |-> Null,
                gameId |-> GameIdAt(0), screen |-> "game", isProcessing |-> FALSE,
                timeouts |-> 0, tasks |-> <<>>, sent |-> 0,
                games |-> <<>>, current |-> GameIdAt(0), now |-> 0]

\* handleCardClick(row, col) up to its await: the flip request is sent
ClickStep ==
    /\ probe.screen = "game"
    /\ ~probe.isProcessing
    /\ probe.sent < MaxRequests
    /\ \E row \in 0..(rows - 1) : \E col \in 0..(cols - 1) :
          probe' = [probe EXCEPT
                       !.isProcessing = TRUE,
                       !.sent = @ + 1,
                       !.tasks = Append(@, Request("flip", probe.gameId, row, col))]
    /\ UNCHANGED engine

\* undoMove() of the client up to its await
UndoClickStep ==
    /\ probe.screen = "game"
    /\ ~probe.isProcessing
    /\ probe.sent < MaxRequests
    /\ probe' = [probe EXCEPT
                    !.isProcessing = TRUE,
                    !.sent = @ + 1,
                    !.tasks = Append(@, Request("undo", probe.gameId, 0, 0))]
    /\ UNCHANGED engine

\* getHint() up to its await
HintClickStep ==
    /\ probe.screen = "game"
    /\ ~probe.isProcessing
    /\ probe.sent < MaxRequests
    /\ probe' = [probe EXCEPT
                    !.isProcessing = TRUE,
                    !.sent = @ + 1,
                    !.tasks = Append(@, Request("hint", probe.gameId, 0, 0))]
    /\ UNCHANGED engine

\* showAnalysis() up to its await
AnalysisClickStep ==
    /\ probe.screen = "game"
    /\ ~probe.isProcessing
    /\ probe.sent < MaxRequests
    /\ probe' = [probe EXCEPT
                    !.isProcessing = TRUE,
                    !.sent = @ + 1,
                    !.tasks = Append(@, Request("analysis", probe.gameId, 0, 0))]
    /\ UNCHANGED engine

\* showHighScores() up to its await; the handler looks at isProcessing only
HighScoresClickStep ==
    /\ probe.screen = "game"
    /\ ~probe.isProcessing
    /\ probe.sent < MaxRequests
    /\ probe' = [probe EXCEPT
                    !.isProcessing = TRUE,
                    !.sent = @ + 1,
                    !.tasks = Append(@, Request("highscores", probe.gameId, 0, 0))]
    /\ UNCHANGED engine

\* showGameScreen(): the button Back to Game of the analysis and the scores
\* screen
BackToGameStep ==
    /\ probe.screen \in {"analysis", "scores"}
    /\ probe' = [probe EXCEPT !.screen = "game"]
    /\ UNCHANGED engine

\* showSetupScreen(): the buttons New Game, Play Again and Back to Menu
ShowSetupStep ==
    /\ probe.screen \in {"game", "analysis", "scores"}
    /\ probe' = [probe EXCEPT !.screen = "setup", !.gameId = NoGameId]
    /\ UNCHANGED engine

\* startNewGame() up to its await, under the loading overlay
StartGameStep ==
    /\ probe.screen = "setup"
    /\ \A i \in 1..Len(probe.tasks) : probe.tasks[i].kind # "new"
    /\ probe.sent < MaxRequests
    /\ probe' = [probe EXCEPT
                    !.sent = @ + 1,
                    !.tasks = Append(@, Request("new", NoGameId, 0, 0))]
    /\ UNCHANGED engine

\* the callback of setTimeout starts, a second after it was scheduled: the
\* flipback request goes to the game that this.gameId names by now
TimeoutStep ==
    /\ probe.timeouts > 0
    /\ probe' = [probe EXCEPT
                    !.timeouts = @ - 1,
                    !.tasks = Append(@, Request("flipback", probe.gameId, 0, 0))]
    /\ UNCHANGED engine

\* what the server puts into the response of a request it has handled
Handled(task, ok, success, flipped) ==
    [task EXCEPT !.stage = "handled", !.ok = ok, !.success = success,
                 !.flipped = flipped]

\* POST /api/game/:gameId/flip, handled
HandleFlipStep ==
    \E i \in SentTasks : \E task \in {probe.tasks[i]} :
        /\ task.kind = "flip"
        /\ task.gameId = probe.current
        /\ \E elapsed \in Elapsed : flipCard(task.row, task.col, elapsed)
        /\ probe' = [probe EXCEPT
                        !.tasks[i] = Handled(task, TRUE, result'.success,
                                             FlippedUnmatched(cards'))]

\* POST /api/game/:gameId/undo, handled
HandleUndoStep ==
    \E i \in SentTasks : \E task \in {probe.tasks[i]} :
        /\ task.kind = "undo"
        /\ task.gameId = probe.current
        /\ undoMove
        /\ probe' = [probe EXCEPT
                        !.tasks[i] = Handled(task, TRUE, result'.success,
                                             FlippedUnmatched(cards'))]

\* POST /api/game/:gameId/flipback, handled
HandleFlipBackStep ==
    \E i \in SentTasks : \E task \in {probe.tasks[i]} :
        /\ task.kind = "flipback"
        /\ task.gameId = probe.current
        /\ flipBackCards
        /\ probe' = [probe EXCEPT
                        !.tasks[i] = Handled(task, TRUE, result'.success,
                                             FlippedUnmatched(cards'))]

\* GET /api/game/:gameId/state, /hint, /analysis and /highscores, handled
HandleReadStep ==
    \E i \in SentTasks : \E task \in {probe.tasks[i]} :
        /\ task.kind \in {"state", "hint", "analysis", "highscores"}
        /\ task.gameId = probe.current
        /\ probe' = [probe EXCEPT
                        !.tasks[i] = Handled(task, TRUE, TRUE, FlippedUnmatched(cards))]
        /\ UNCHANGED engine

\* a request for an id that this.games does not hold: 404
HandleNotFoundStep ==
    \E i \in SentTasks : \E task \in {probe.tasks[i]} :
        /\ task.kind # "new"
        /\ task.gameId \notin GameIds
        /\ probe' = [probe EXCEPT !.tasks[i] = Handled(task, FALSE, FALSE, 0)]
        /\ UNCHANGED engine

\* GET /api/game/new, handled at time t
HandleNewGameStep ==
    \E i \in SentTasks : \E task \in {probe.tasks[i]} :
    \E t \in {probe.now, probe.now + 1} :
    \E b \in Boards : \E js \in ExploredDraws(b[1] * b[2]) :
    \E gameId \in {GameIdAt(t)} :
        /\ task.kind = "new"
        /\ NewGameEngine(b[1], b[2], js)
        /\ probe' = [probe EXCEPT
                        !.now = t,
                        !.current = gameId,
                        !.games = IF gameId = probe.current
                                  THEN MapDelete(@, gameId)
                                  ELSE MapSet(MapDelete(@, gameId), probe.current, engine),
                        !.tasks[i] = [Handled(task, TRUE, TRUE, 0) EXCEPT !.newId = gameId]]

\* this.games.get(gameId) of a request that addresses another game than the
\* last one handled
HandleGetGameStep ==
    /\ \E i \in SentTasks : probe.tasks[i].gameId \in DOMAIN probe.games
    /\ ServerGetGameStep

\* handleCardClick from the response on: with two cards face up and
\* unmatched it schedules the flip back and returns, and the finally block
\* runs on every way out of the try block
ClickResponseStep ==
    \E i \in HandledTasks : \E task \in {probe.tasks[i]} :
        /\ task.kind = "flip"
        /\ probe' = [probe EXCEPT
                        !.timeouts = IF task.success /\ task.flipped = 2
                                     THEN @ + 1 ELSE @,
                        !.isProcessing = FALSE,
                        !.tasks = RemoveAt(@, i)]
        /\ UNCHANGED engine

\* undoMove() and getHint() of the client from the response on
UndoResponseStep ==
    \E i \in HandledTasks : \E task \in {probe.tasks[i]} :
        /\ task.kind \in {"undo", "hint"}
        /\ probe' = [probe EXCEPT !.isProcessing = FALSE, !.tasks = RemoveAt(@, i)]
        /\ UNCHANGED engine

\* showAnalysis() from the response on: the analysis screen is shown when
\* the response is ok
AnalysisResponseStep ==
    \E i \in HandledTasks : \E task \in {probe.tasks[i]} :
        /\ task.kind = "analysis"
        /\ probe' = [probe EXCEPT
                        !.screen = IF task.ok THEN "analysis" ELSE @,
                        !.isProcessing = FALSE,
                        !.tasks = RemoveAt(@, i)]
        /\ UNCHANGED engine

\* showHighScores() from the response on
HighScoresResponseStep ==
    \E i \in HandledTasks : \E task \in {probe.tasks[i]} :
        /\ task.kind = "highscores"
        /\ probe' = [probe EXCEPT
                        !.screen = IF task.ok THEN "scores" ELSE @,
                        !.isProcessing = FALSE,
                        !.tasks = RemoveAt(@, i)]
        /\ UNCHANGED engine

\* startNewGame() from the response on
StartGameResponseStep ==
    \E i \in HandledTasks : \E task \in {probe.tasks[i]} :
        /\ task.kind = "new"
        /\ probe' = [probe EXCEPT
                        !.gameId = task.newId,
                        !.screen = "game",
                        !.tasks = RemoveAt(@, i)]
        /\ UNCHANGED engine

\* the callback from the response of the flip back on: it asks for the
\* state of the game that this.gameId names by now
TimeoutFetchStateStep ==
    \E i \in HandledTasks : \E task \in {probe.tasks[i]} :
        /\ task.kind = "flipback"
        /\ probe' = [probe EXCEPT
                        !.tasks[i] = Request("state", probe.gameId, 0, 0)]
        /\ UNCHANGED engine

\* the callback from the response of the state on: the state is shown and
\* isProcessing is reset; renderGameBoard throws on the body of a 404, which
\* has no cards, and the callback ends there
TimeoutRefreshStep ==
    \E i \in HandledTasks : \E task \in {probe.tasks[i]} :
        /\ task.kind = "state"
        /\ probe' = [probe EXCEPT
                        !.isProcessing = IF task.ok THEN FALSE ELSE @,
                        !.tasks = RemoveAt(@, i)]
        /\ UNCHANGED engine

NextClient ==
    \/ ClickStep \/ UndoClickStep \/ HintClickStep \/ AnalysisClickStep
    \/ HighScoresClickStep \/ BackToGameStep \/ ShowSetupStep \/ StartGameStep
    \/ TimeoutStep
    \/ HandleFlipStep \/ HandleUndoStep \/ HandleFlipBackStep \/ HandleReadStep
    \/ HandleNotFoundStep \/ HandleNewGameStep \/ HandleGetGameStep
    \/ ClickResponseStep \/ UndoResponseStep \/ AnalysisResponseStep
    \/ HighScoresResponseStep \/ StartGameResponseStep
    \/ TimeoutFetchStateStep \/ TimeoutRefreshStep

SpecClient == InitClient /\ [][NextClient]_vars

(***************************************************************************)
(* Observations used by the properties.                                    *)
(***************************************************************************)
CardIds == {cards[k].id : k \in 1..Len(cards)}

\* r is the result of a successful flipCard (only flipCard returns a card)
FlipSucceeded(r) == r.success /\ r.card # Null

\* r is a result of flipBackCards
FlipBackReturned(r) == r.message \in {"Cards flipped back", "No cards to flip back"}

\* r is a result of undoMove
UndoReturned(r) == r.message \in {"Move undone", "No moves to undo"}

InPending(fl, id) == \E i \in 1..Len(fl) : fl[i] = id

FlippedFlags(cs) == [k \in 1..Len(cs) |-> cs[k].isFlipped]

MatchedFlags(cs) == [k \in 1..Len(cs) |-> cs[k].isMatched]

\* flags with the flag of card id set to b
WithFlag(flags, cs, id, b) == [flags EXCEPT ![CardIndex(cs, id)] = b]

\* the state is the one reached from a fresh game by flipping the cards of
\* seq in order, none of the flips having completed a match
PlayedFromFresh(seq) ==
    /\ moves = Len(seq)
    /\ moveHistory = [i \in 1..Len(seq) |-> [card |-> seq[i], action |-> "flip"]]
    /\ flippedCards = seq
    /\ score = 0
    /\ gameState = "playing"
    /\ \A k \in 1..Len(cards) :
          /\ cards[k].isFlipped <=> InPending(seq, cards[k].id)
          /\ ~cards[k].isMatched

(***************************************************************************)
(* C1: the pending list holds 0, 1 or 2 cards in every reachable state.    *)
(* The code appends to the list without looking at its length, so a flip   *)
(* while two mismatched cards are pending makes it hold 3.                 *)
(***************************************************************************)
C1_PendingAtMostTwo == Len(flippedCards) \in {0, 1, 2}

(***************************************************************************)
(* C2: in every reachable state a card is in the pending list iff it is    *)
(* flipped and not matched.  undoMove un-flips a card and leaves it in the *)
(* list.                                                                   *)
(***************************************************************************)
C2_PendingIffFlippedUnmatched ==
    \A k \in 1..Len(cards) :
        InPending(flippedCards, cards[k].id)
            <=> (cards[k].isFlipped /\ ~cards[k].isMatched)

(***************************************************************************)
(* C3: a call that returns failure leaves moves, score, phase, the cards'  *)
(* flags, the pending list and the move history as they were; and a call   *)
(* whose precondition fails does return failure: a flip succeeds only on   *)
(* a card that was neither flipped nor matched, flipBack only with exactly *)
(* two pending cards, undo only with a non-empty history.                  *)
(***************************************************************************)
C3_FailureLeavesState ==
    [][ /\ ~result'.success =>
              UNCHANGED <<moves, score, gameState, cards, flippedCards, moveHistory>>
        /\ FlipSucceeded(result') =>
              /\ ~CardOf(cards, result'.card).isFlipped
              /\ ~CardOf(cards, result'.card).isMatched
        /\ (FlipBackReturned(result') /\ Len(flippedCards) # 2) => ~result'.success
        /\ (UndoReturned(result') /\ Len(moveHistory) = 0) => ~result'.success
      ]_vars

\* a flip of an empty cell has just failed, in the middle of a game
C3_Witness ==
    /\ ~result.success
    /\ result.message = "Card not found at specified position"
    /\ moves > 0
    /\ Len(flippedCards) = 1

(***************************************************************************)
(* C4: two sequential successful flips of two cards with equal symbols,    *)
(* starting with nothing pending.  The step below is the second of them:   *)
(* the first left its card alone in the pending list.                      *)
(***************************************************************************)
SecondFlipOfEqualPair ==
    /\ Len(flippedCards) = 1
    /\ FlipSucceeded(result)
    /\ result.card = flippedCards[1]
    /\ FlipSucceeded(result')
    /\ result'.card # result.card
    /\ CardOf(cards, result'.card).symbol = CardOf(cards, result.card).symbol

BothMatchedAfter ==
    /\ CardOf(cards', result.card).isMatched
    /\ CardOf(cards', result'.card).isMatched
    /\ flippedCards' = <<>>

\* C4 as claimed: both cards matched, score increased by exactly 10, pending
\* empty
C4_MatchAddsExactlyTen ==
    [][ SecondFlipOfEqualPair => (BothMatchedAfter /\ score' = score + 10) ]_vars

\* C4 amended: both cards matched and pending empty; score increased by
\* exactly 10, or by 10 plus the time and move bonuses when the match
\* completes the board and the phase becomes Won
C4_MatchAddsTenPlusBonuses ==
    [][ SecondFlipOfEqualPair =>
          /\ BothMatchedAfter
          /\ score' = score + 10
                      + (IF gameState = "playing" /\ gameState' = "won"
                         THEN TimeBonus(timer') + MoveBonus(moves')
                         ELSE 0)
      ]_vars

\* the second flip of an equal pair has just matched it and won the game
C4_Witness ==
    /\ FlipSucceeded(result)
    /\ gameState = "won"
    /\ flippedCards = <<>>
    /\ Len(moveHistory) >= 2
    /\ moveHistory[Len(moveHistory)].card = result.card
    /\ moveHistory[Len(moveHistory) - 1].card # result.card
    /\ CardOf(cards, moveHistory[Len(moveHistory) - 1].card).symbol
          = CardOf(cards, result.card).symbol
    /\ CardOf(cards, result.card).isMatched
    /\ score > 20

(***************************************************************************)
(* C5: once two cards with different symbols are pending and flipped, they *)
(* stay flipped and the pending list stays those two cards over every step *)
(* that is not a successful flipBack.  A third flip extends the list and   *)
(* an undo un-flips one of the two.                                        *)
(***************************************************************************)
MismatchPending ==
    /\ Len(flippedCards) = 2
    /\ CardOf(cards, flippedCards[1]).symbol # CardOf(cards, flippedCards[2]).symbol
    /\ CardOf(cards, flippedCards[1]).isFlipped
    /\ CardOf(cards, flippedCards[2]).isFlipped

C5_MismatchStaysUntilFlipBack ==
    [][ (MismatchPending /\ result'.message # "Cards flipped back") =>
          /\ flippedCards' = flippedCards
          /\ CardOf(cards', flippedCards[1]).isFlipped
          /\ CardOf(cards', flippedCards[2]).isFlipped
      ]_vars

(***************************************************************************)
(* C6: flipBack succeeds exactly when the pending list holds exactly two   *)
(* unmatched cards, and after a successful flipBack both of them are       *)
(* unflipped and the list is empty.  Card.flip toggles, so a pending card  *)
(* that an undo has un-flipped comes out of flipBack flipped.              *)
(***************************************************************************)
C6_FlipBackContract ==
    [][ FlipBackReturned(result') =>
          /\ result'.success <=>
                (/\ Len(flippedCards) = 2
                 /\ ~CardOf(cards, flippedCards[1]).isMatched
                 /\ ~CardOf(cards, flippedCards[2]).isMatched)
          /\ result'.success =>
                /\ ~CardOf(cards', flippedCards[1]).isFlipped
                /\ ~CardOf(cards', flippedCards[2]).isFlipped
                /\ flippedCards' = <<>>
      ]_vars

(***************************************************************************)
(* C7: on a fresh 4x4 game, the second of two flips of cards with          *)
(* different symbols leaves phase playing, moves = 2 and two cards         *)
(* pending; a flipBack that follows leaves pending empty and both cards    *)
(* unflipped; and no flipBack changes moves, score, a matched flag or the  *)
(* move history.                                                           *)
(***************************************************************************)
C7_MismatchThenFlipBack ==
    [][ /\ (/\ Len(flippedCards) = 1
             /\ PlayedFromFresh(flippedCards)
             /\ FlipSucceeded(result')
             /\ CardOf(cards, flippedCards[1]).symbol # CardOf(cards, result'.card).symbol)
            => (/\ gameState' = "playing"
                /\ moves' = 2
                /\ flippedCards' = <<flippedCards[1], result'.card>>)
        /\ (/\ Len(flippedCards) = 2
             /\ PlayedFromFresh(flippedCards)
             /\ FlipBackReturned(result'))
            => (/\ result'.success
                /\ flippedCards' = <<>>
                /\ ~CardOf(cards', flippedCards[1]).isFlipped
                /\ ~CardOf(cards', flippedCards[2]).isFlipped)
        /\ FlipBackReturned(result') =>
             /\ UNCHANGED <<moves, score, moveHistory>>
             /\ MatchedFlags(cards') = MatchedFlags(cards)
      ]_vars

\* a 4x4 game in which two cards with different symbols were flipped and
\* then flipped back
C7_Witness ==
    /\ rows = 4 /\ cols = 4 /\ Len(cards) = 16
    /\ result.message = "Cards flipped back"
    /\ gameState = "playing"
    /\ moves = 2
    /\ Len(moveHistory) = 2
    /\ CardOf(cards, moveHistory[1].card).symbol # CardOf(cards, moveHistory[2].card).symbol
    /\ flippedCards = <<>>
    /\ \A k \in 1..Len(cards) : ~cards[k].isFlipped /\ ~cards[k].isMatched

(***************************************************************************)
(* C8: undo fails exactly when the move history is empty; otherwise it     *)
(* pops the most recent entry, leaves that card unflipped and decrements   *)
(* moves.  flipBack un-flips cards without popping their entries, so an    *)
(* undo after it toggles the card to flipped.                              *)
(***************************************************************************)
C8_UndoContract ==
    [][ UndoReturned(result') =>
          /\ ~result'.success <=> Len(moveHistory) = 0
          /\ result'.success =>
                /\ moveHistory' = SubSeq(moveHistory, 1, Len(moveHistory) - 1)
                /\ ~CardOf(cards', moveHistory[Len(moveHistory)].card).isFlipped
                /\ moves' = moves - 1
      ]_vars

(***************************************************************************)
(* C9: flip then undo is a round trip on the flipped flags and on moves.   *)
(* A successful flip changes the flags only by setting the flag of its     *)
(* card, which was unset, and adds one to moves; an undo that comes right  *)
(* after a successful flip succeeds, changes the flags only by unsetting   *)
(* the flag of that card, and takes one from moves.                        *)
(***************************************************************************)
C9_FlipUndoRoundTrip ==
    [][ /\ FlipSucceeded(result') =>
              /\ ~CardOf(cards, result'.card).isFlipped
              /\ FlippedFlags(cards')
                    = WithFlag(FlippedFlags(cards), cards, result'.card, TRUE)
              /\ moves' = moves + 1
        /\ (FlipSucceeded(result) /\ UndoReturned(result')) =>
              /\ result'.success
              /\ FlippedFlags(cards')
                    = WithFlag(FlippedFlags(cards), cards, result.card, FALSE)
              /\ moves' = moves - 1
      ]_vars

\* an undo has taken back the second of two flips
C9_Witness ==
    /\ result.message = "Move undone"
    /\ moves = 1
    /\ Len(moveHistory) = 1
    /\ Len(flippedCards) = 2
    /\ CardOf(cards, flippedCards[1]).isFlipped
    /\ ~CardOf(cards, flippedCards[2]).isFlipped

(***************************************************************************)
(* C10: undo changes no matched flag, nor the score, the phase or the      *)
(* ledger, also when the undone card is matched or the game is won.        *)
(***************************************************************************)
C10_UndoKeepsMatchesAndScore ==
    [][ UndoReturned(result') =>
          /\ MatchedFlags(cards') = MatchedFlags(cards)
          /\ UNCHANGED <<score, gameState, scoreTree>>
      ]_vars

\* an undo has un-flipped a matched card of a game that is won
C10_Witness ==
    /\ result.message = "Move undone"
    /\ gameState = "won"
    /\ Len(scoreTree) = 1
    /\ \E k \in 1..Len(cards) : cards[k].isMatched /\ ~cards[k].isFlipped

(***************************************************************************)
(* C11: on a board with an even, non-zero number of cells the phase is     *)
(* "won" exactly in the states where every card is matched.                *)
(***************************************************************************)
C11_WonIffAllMatched ==
    (gameState = "won") <=> (\A k \in 1..Len(cards) : cards[k].isMatched)

\* the last pair has been matched and the game is won
C11_Witness ==
    /\ gameState = "won"
    /\ Len(cards) = rows * cols
    /\ Len(cards) > 0
    /\ \A k \in 1..Len(cards) : cards[k].isMatched

(***************************************************************************)
(* C12: "won" is terminal. A step from a won state leaves the phase won,   *)
(* is not a successful flip, and does not run the final-score computation  *)
(* again: score, timer and ledger keep their values, so the transition     *)
(* from playing to won happens at most once.                               *)
(***************************************************************************)
C12_WonIsTerminal ==
    [][ gameState = "won" =>
          /\ gameState' = "won"
          /\ ~FlipSucceeded(result')
          /\ UNCHANGED <<score, timer, scoreTree>>
      ]_vars

\* a flip of a card was refused in a game that is won, after an undo
C12_Witness ==
    /\ gameState = "won"
    /\ Len(scoreTree) = 1
    /\ ~result.success
    /\ result.message = "This card is already matched"
    /\ \E k \in 1..Len(cards) : ~cards[k].isFlipped

(***************************************************************************)
(* C13: at the step that takes the phase from playing to won, the score is *)
(* 10 for each pair of cards on the board, plus the time bonus             *)
(* max(0, 1000 - floor(elapsed / 1000)), plus the move bonus               *)
(* max(0, 50 - moves), moves being the counter after that step.            *)
(***************************************************************************)
C13_ScoreAtWon ==
    [][ (gameState = "playing" /\ gameState' = "won") =>
          score' = 10 * (Len(cards) \div 2)
                   + Max(0, 1000 - (timer' \div 1000))
                   + Max(0, 50 - moves')
      ]_vars

(***************************************************************************)
(* C14: in a 4x4 game played without undo, flipBack following each         *)
(* mismatch, once all 8 pairs are matched the phase is won and the score   *)
(* is 80 plus the time bonus plus the move bonus.                          *)
(***************************************************************************)
C14_NoUndoWinScore ==
    (\A k \in 1..Len(cards) : cards[k].isMatched) =>
        /\ gameState = "won"
        /\ score = 80 + Max(0, 1000 - (timer \div 1000)) + Max(0, 50 - moves)

\* the 16 cards are matched after 18 flips, two of them a mismatch that was
\* flipped back
C14_Witness ==
    /\ Len(cards) = 16
    /\ \A k \in 1..Len(cards) : cards[k].isMatched
    /\ moves = 18
    /\ Len(moveHistory) = 18
    /\ timer = 1500
    /\ score = 80 + 999 + 32

(***************************************************************************)
(* C15: for every elapsed time and every move count the time bonus and the *)
(* move bonus are at least 0, so the final score is at least the score of  *)
(* the matches it is computed from.                                        *)
(***************************************************************************)
C15_BonusesNotNegative ==
    probe.fn = "calculateFinalScore" =>
        /\ TimeBonus(probe.args[2]) >= 0
        /\ MoveBonus(probe.args[3]) >= 0
        /\ probe.out # Null =>
              /\ probe.out >= probe.args[1]
              /\ score >= probe.args[1]

\* the final score of a game of more than 50 moves that lasted more than
\* 1000 seconds: both bonuses are at their floor
C15_Witness ==
    /\ probe.fn = "calculateFinalScore"
    /\ probe.args[3] > 50
    /\ probe.args[2] > 1000999
    /\ probe.out # Null
    /\ probe.out = probe.args[1]
    /\ score = probe.args[1]

(***************************************************************************)
(* C16: the ledger of final scores is empty while the phase is playing and *)
(* holds exactly one entry once it is won, whose score is the score of the *)
(* engine; no step from a won state changes the ledger or the score.       *)
(***************************************************************************)
C16_LedgerHoldsFinalScore ==
    /\ [](gameState = "playing" => scoreTree = <<>>)
    /\ [](gameState = "won" => Len(scoreTree) = 1 /\ scoreTree[1].score = score)
    /\ [][gameState = "won" => UNCHANGED <<scoreTree, score>>]_vars

\* a game is won with the bonuses in its score, and an operation has been
\* called since
C16_Witness ==
    /\ gameState = "won"
    /\ Len(scoreTree) = 1
    /\ scoreTree[1].score = score
    /\ score > 20
    /\ result.message \in {"Move undone", "No cards to flip back",
                            "This card is already matched"}

(***************************************************************************)
(* C17: an engine with an odd number of cells is never created: in every   *)
(* engine state rows * cols is even, every cell of the grid holds a card   *)
(* and no card is the only one of its symbol.                              *)
(***************************************************************************)
C17_OddBoardRejected ==
    /\ (rows * cols) % 2 = 0
    /\ \A row \in 0..(rows - 1) : \A col \in 0..(cols - 1) :
          getCardAt(row, col) \notin {Null, Undefined}
    /\ \A k \in 1..Len(cards) :
          \E other \in 1..Len(cards) :
              other # k /\ cards[other].symbol = cards[k].symbol

(***************************************************************************)
(* C18: on every board of 3x3 up to 6x6 with an even number of cells,      *)
(* every symbol labels exactly two cards after construction and shuffle.   *)
(***************************************************************************)
C18_EverySymbolTwice ==
    \A k \in 1..Len(cards) :
        Cardinality({other \in 1..Len(cards) :
                        cards[other].symbol = cards[k].symbol}) = 2

(***************************************************************************)
(* C19: on a board with an even number of cells the ids of the cards are   *)
(* exactly 0..rows*cols-1, every cell of the grid is the position of       *)
(* exactly one card (there are rows*cols cards, at distinct positions of   *)
(* the grid), getCardAt(r, c) is that card, and so no flip fails with      *)
(* "Card not found"; no step changes the id, the symbol or the position of *)
(* a card.                                                                 *)
(***************************************************************************)
C19_CellsAndIdentityStable ==
    /\ [](/\ {cards[k].id : k \in 1..Len(cards)} = 0..(rows * cols - 1)
          /\ Len(cards) = rows * cols
          /\ \A k \in 1..Len(cards) :
                /\ cards[k].position.row \in 0..(rows - 1)
                /\ cards[k].position.col \in 0..(cols - 1)
                /\ getCardAt(cards[k].position.row, cards[k].position.col)
                      = cards[k].id
                /\ \A other \in 1..Len(cards) :
                      cards[other].position = cards[k].position => other = k
          /\ result.message # "Card not found at specified position")
    /\ [][ /\ Len(cards') = Len(cards)
           /\ \A k \in 1..Len(cards) :
                 /\ cards'[k].id = cards[k].id
                 /\ cards'[k].symbol = cards[k].symbol
                 /\ cards'[k].position = cards[k].position
       ]_vars

\* on the 6x6 board the card of cell (2,3) has been flipped and a later
\* operation has acted on it
C19_Witness ==
    /\ rows = 6
    /\ cols = 6
    /\ Len(cards) = 36
    /\ result.message = "Move undone"
    /\ Len(flippedCards) = 1
    /\ flippedCards[1] = getCardAt(2, 3)
    /\ CardOf(cards, flippedCards[1]).position = [row |-> 2, col |-> 3]

\* the step is a call of flipCard
FlipReturned(r) ==
    \/ FlipSucceeded(r)
    \/ r.message \in {"Invalid card position", "Card not found at specified position",
                       "This card is already matched", "This card is already flipped"}

\* the card of the cell that the flipCard call of this step names
FlipTarget == getCardAt(probe'.args[1], probe'.args[2])

\* the step is a call flipCard(row, col) for a cell of the board whose card
\* is neither flipped nor matched
FlipOfFreshCard ==
    /\ probe'.fn = "flipCard"
    /\ FlipReturned(result')
    /\ probe'.args[1] \in 0..(rows - 1)
    /\ probe'.args[2] \in 0..(cols - 1)
    /\ \E id \in {FlipTarget} \ {Null, Undefined} :
          ~CardOf(cards, id).isFlipped /\ ~CardOf(cards, id).isMatched

\* the successful flip of this step completes a match: one card was pending
\* and it has the symbol of the flipped card
FlipCompletesMatch ==
    /\ Len(flippedCards) = 1
    /\ CardOf(cards, flippedCards[1]).symbol = CardOf(cards, result'.card).symbol

\* what a successful flip does to the flag of its card, the history, the
\* move counter and the flags of the other cards
FlipEffects ==
    /\ CardOf(cards', result'.card).isFlipped
    /\ moveHistory' = Append(moveHistory, [card |-> result'.card, action |-> "flip"])
    /\ moves' = moves + 1
    /\ FlippedFlags(cards') = WithFlag(FlippedFlags(cards), cards, result'.card, TRUE)
    /\ ~FlipCompletesMatch => MatchedFlags(cards') = MatchedFlags(cards)

(***************************************************************************)
(* C20: a flip of an in-bounds card that is neither flipped nor matched    *)
(* succeeds; a successful flip sets the flipped flag of its card, appends  *)
(* one entry for the card to the move history, adds one to moves and       *)
(* appends the card to the pending list; it changes no flag of another     *)
(* card unless it completes a match.                                       *)
(***************************************************************************)
C20_FlipAppendsToPending ==
    [][ /\ FlipOfFreshCard => FlipSucceeded(result') /\ result'.card = FlipTarget
        /\ FlipSucceeded(result') =>
              /\ FlipEffects
              /\ flippedCards' = Append(flippedCards, result'.card)
      ]_vars

(***************************************************************************)
(* C20, amended: as above, but the pending list is the old list with the   *)
(* card appended only when the flip does not complete a match; when it     *)
(* does, the pending list is empty after the flip.                         *)
(***************************************************************************)
C20_FlipAppendsOrClearsPending ==
    [][ /\ FlipOfFreshCard => FlipSucceeded(result') /\ result'.card = FlipTarget
        /\ FlipSucceeded(result') =>
              /\ FlipEffects
              /\ flippedCards' = IF FlipCompletesMatch
                                 THEN <<>>
                                 ELSE Append(flippedCards, result'.card)
      ]_vars

\* the second flip of a game has completed a match: its card is flipped and
\* matched, the history has its entry on top, and nothing is pending
C20_Witness ==
    /\ probe.fn = "flipCard"
    /\ FlipSucceeded(result)
    /\ result.card = getCardAt(probe.args[1], probe.args[2])
    /\ moves = 2
    /\ Len(moveHistory) = 2
    /\ moveHistory[2].card = result.card
    /\ CardOf(cards, result.card).isFlipped
    /\ CardOf(cards, result.card).isMatched
    /\ score = 10
    /\ flippedCards = <<>>

(***************************************************************************)
(* C21: in every reachable state moves is the depth of the move history    *)
(* and is not negative; the history holds flip entries only, one for each  *)
(* successful flip that has not been undone, so matches and wins add none. *)
(***************************************************************************)
C21_MovesIsHistoryDepth ==
    /\ moves = StackSize(moveHistory)
    /\ moves >= 0
    /\ \A i \in 1..Len(moveHistory) : moveHistory[i].action = "flip"

\* the game was won by two flips after two other flips were undone: the
\* history holds the two winning flips
C21_Witness ==
    /\ gameState = "won"
    /\ moves = 2
    /\ Len(moveHistory) = 2
    /\ score > 20
    /\ \A k \in 1..Len(cards) :
          cards[k].isFlipped <=> (\E i \in 1..2 : moveHistory[i].card = cards[k].id)

\* the place of entry k of the tree among the entries when they are sorted
\* by score descending, entries of equal score in the order of insertion
\* (the tree keeps its nodes in the order of insertion)
RankOfEntry(tree, k) ==
    1 + Cardinality({j \in 1..Len(tree) :
                        \/ tree[j].score > tree[k].score
                        \/ tree[j].score = tree[k].score /\ j < k})

(***************************************************************************)
(* C22: getTopScores(limit) returns the inserted entries sorted by score   *)
(* descending, entries of equal score in the order of their insertion,     *)
(* cut to min(limit, number of entries), each entry at most once.          *)
(***************************************************************************)
C22_TopScoresStableDescending ==
    probe.fn = "getTopScores" =>
        /\ Len(probe.out) = IF probe.args[1] < Len(scoreTree)
                            THEN probe.args[1] ELSE Len(scoreTree)
        /\ \A i \in 1..Len(probe.out) :
              \E k \in 1..Len(scoreTree) :
                  /\ RankOfEntry(scoreTree, k) = i
                  /\ probe.out[i] = [value |-> scoreTree[k].value,
                                     score |-> scoreTree[k].score]
        /\ \A i, j \in 1..Len(probe.out) : probe.out[i] = probe.out[j] => i = j

\* four entries, the second and the fourth with the score of the first,
\* and the top three of them asked for: the three entries of equal score
\* come in the order of insertion
C22_Witness ==
    /\ probe.fn = "getTopScores"
    /\ probe.args[1] = 3
    /\ Len(scoreTree) = 4
    /\ scoreTree[1].score = 100
    /\ scoreTree[2].score = 100
    /\ scoreTree[3].score = 75
    /\ scoreTree[4].score = 100
    /\ probe.out = <<[value |-> <<"Player_", 1>>, score |-> 100],
                     [value |-> <<"Player_", 2>>, score |-> 100],
                     [value |-> <<"Player_", 4>>, score |-> 100]>>

\* the entries of the table that were set for the key, in any bucket
EntriesOfKey(keyMap, key) ==
    {ix \in HashEntries(keyMap) : keyMap[ix[1]][ix[2]][1] = key}

(***************************************************************************)
(* C23: get(key) returns the value most recently set for the key, also     *)
(* when the key was set more than once.  (set appends to the chain of the  *)
(* bucket, so the most recent entry of a key is the last one in its        *)
(* chain.)                                                                 *)
(***************************************************************************)
C23_GetReturnsLastSet ==
    probe.fn = "get" =>
        \A ix \in EntriesOfKey(cardHash, probe.args[1]) :
            (\A other \in EntriesOfKey(cardHash, probe.args[1]) : other[2] <= ix[2])
                => probe.out = cardHash[ix[1]][ix[2]][2]

(***************************************************************************)
(* C24: a key that shares its bucket with another key is looked up with    *)
(* its own value, not the value of the other key, and the lookup of a key  *)
(* that was never set returns undefined.                                   *)
(***************************************************************************)
C24_CollidingKeysKeepOwnValues ==
    probe.fn = "get" =>
        IF EntriesOfKey(cardHash, probe.args[1]) = {}
        THEN probe.out = Undefined
        ELSE \E ix \in EntriesOfKey(cardHash, probe.args[1]) :
                 probe.out = cardHash[ix[1]][ix[2]][2]

\* "ab" and "bx" are in one bucket with different values, and the lookup of
\* "bx", the second of the chain, has returned the value of "bx"
C24_Witness ==
    /\ probe.fn = "get"
    /\ probe.args[1] = KeyBx
    /\ Hash(KeyAb) = Hash(KeyBx)
    /\ Hash(KeyBx) \in DOMAIN cardHash
    /\ cardHash[Hash(KeyBx)] = <<<<KeyAb, 100>>, <<KeyBx, 200>>>>
    /\ probe.out = 200

\* the ids of the cards in the cells one step up, down, left or right of
\* the cell of card k
AdjacentIds(k) ==
    {cards[j].id : j \in {i \in 1..Len(cards) :
        \/ /\ cards[i].position.row = cards[k].position.row
           /\ cards[i].position.col - cards[k].position.col \in {-1, 1}
        \/ /\ cards[i].position.col = cards[k].position.col
           /\ cards[i].position.row - cards[k].position.row \in {-1, 1}}}

\* the set of the neighbors of a vertex
NeighborSet(vertex) ==
    {GetNeighbors(cardGraph, vertex)[i] : i \in 1..Len(GetNeighbors(cardGraph, vertex))}

(***************************************************************************)
(* C25: on a board with an even number of cells, the neighbors of every    *)
(* card in the graph are exactly the cards of the cells one step up, down, *)
(* left or right of it; being a neighbor is symmetric and no card is its   *)
(* own neighbor.                                                           *)
(***************************************************************************)
C25_NeighborsAreAdjacentCells ==
    /\ DOMAIN cardGraph = CardIds
    /\ \A k \in 1..Len(cards) :
          /\ NeighborSet(cards[k].id) = AdjacentIds(k)
          /\ cards[k].id \notin NeighborSet(cards[k].id)
          /\ \A b \in NeighborSet(cards[k].id) : cards[k].id \in NeighborSet(b)

\* on the 6x6 board the card of cell (2,3) has four neighbors, the card of
\* the corner (0,0) two, and the game has been played since
C25_Witness ==
    /\ rows = 6
    /\ cols = 6
    /\ Cardinality(NeighborSet(getCardAt(2, 3))) = 4
    /\ NeighborSet(getCardAt(0, 0)) = {getCardAt(0, 1), getCardAt(1, 0)}
    /\ moves > 0

\* the vertices of a component, as a set
VerticesOf(component) == {component[i] : i \in 1..Len(component)}

(***************************************************************************)
(* C27: getConnectedComponents returns components that are pairwise        *)
(* disjoint, repeat no vertex, and have sizes that sum to the number of    *)
(* cards; on a fully built board with an even number of cells it returns   *)
(* exactly one component, which holds every card id.                       *)
(***************************************************************************)
C27_OneComponentOfAllCards ==
    (probe.fn = "getConnectedComponents" /\ probe.pc = "return") =>
        /\ \A i \in 1..Len(probe.out) :
              Cardinality(VerticesOf(probe.out[i])) = Len(probe.out[i])
        /\ \A i, j \in 1..Len(probe.out) :
              i # j => VerticesOf(probe.out[i]) \cap VerticesOf(probe.out[j]) = {}
        /\ Cardinality(UNION {VerticesOf(probe.out[i]) : i \in 1..Len(probe.out)})
              = Len(cards)
        /\ Len(probe.out) = 1
        /\ VerticesOf(probe.out[1]) = CardIds

\* the components of the 6x6 board: one sequence of 36 vertices
C27_Witness ==
    /\ probe.fn = "getConnectedComponents"
    /\ probe.pc = "return"
    /\ rows = 6
    /\ cols = 6
    /\ Len(probe.out) = 1
    /\ Len(probe.out[1]) = 36

\* the cell of the card with this id
CellOfId(id) == CHOOSE k \in 1..Len(cards) : cards[k].id = id

\* |a - b|
AbsDiff(a, b) == IF a >= b THEN a - b ELSE b - a

\* the Manhattan distance between the cells of two cards
GridDistance(a, b) ==
    AbsDiff(cards[CellOfId(a)].position.row, cards[CellOfId(b)].position.row)
    + AbsDiff(cards[CellOfId(a)].position.col, cards[CellOfId(b)].position.col)

(***************************************************************************)
(* C28: on a board with an even number of cells, findShortestPath from     *)
(* cell A to cell B returns a sequence of card ids that starts with the    *)
(* card at A, ends with the card at B, steps only between cards of         *)
(* adjacent cells, and has one vertex more than the Manhattan distance     *)
(* between A and B (a single vertex from A to A).                          *)
(***************************************************************************)
C28_ShortestPathIsManhattan ==
    (probe.fn = "findShortestPath" /\ probe.pc # "loop") =>
        /\ probe.pc = "return path"
        /\ probe.out[1] = getCardAt(probe.args[1], probe.args[2])
        /\ probe.out[Len(probe.out)] = getCardAt(probe.args[3], probe.args[4])
        /\ \A i \in 1..(Len(probe.out) - 1) :
              GridDistance(probe.out[i], probe.out[i + 1]) = 1
        /\ Len(probe.out) - 1 =
              AbsDiff(probe.args[1], probe.args[3]) + AbsDiff(probe.args[2], probe.args[4])

\* a path across the 6x6 board, corner to corner
C28_Witness ==
    /\ probe.fn = "findShortestPath"
    /\ probe.pc = "return path"
    /\ rows = 6
    /\ probe.args = <<0, 0, 5, 5>>
    /\ Len(probe.out) = 11

(***************************************************************************)
(* C26: addEdge is idempotent: when the edge between a and b is in the     *)
(* graph already, addEdge(a, b) and addEdge(b, a) leave the neighbor       *)
(* sequences of a and of b as they were.                                   *)
(***************************************************************************)
C26_AddEdgeIdempotent ==
    [][(/\ probe'.fn = "addEdge"
        /\ probe'.args[1] \in NeighborSet(probe'.args[2])
        /\ probe'.args[2] \in NeighborSet(probe'.args[1]))
       => /\ GetNeighbors(cardGraph', probe'.args[1]) = GetNeighbors(cardGraph, probe'.args[1])
          /\ GetNeighbors(cardGraph', probe'.args[2]) = GetNeighbors(cardGraph, probe'.args[2])]_vars

\* the vertices reached from a set of vertices along the neighbor lists
RECURSIVE ReachedFrom(_)
ReachedFrom(found) ==
    IF \A v \in found : NeighborSet(v) \subseteq found THEN found
    ELSE ReachedFrom(found \cup UNION {NeighborSet(v) : v \in found})

\* a cell in which getCardAt finds no card
HoldsNoCard(row, col) == getCardAt(row, col) \in {Null, Undefined}

(***************************************************************************)
(* C29: bfs terminates: every run of the loop body takes one visited       *)
(* vertex off the queue and no vertex is put on the queue twice, so the    *)
(* runs never outnumber the vertices (the start included).  bfs returns    *)
(* null when the target cannot be reached from the start, a target that    *)
(* is no vertex included, and findShortestPath returns null when one of    *)
(* the two cells holds no card.                                            *)
(***************************************************************************)
C29_BfsEndsAndReportsNoPath ==
    /\ probe.fn \in {"bfs", "findShortestPath"} =>
          /\ probe.iterations + Len(probe.queue) = Cardinality(probe.visited)
          /\ probe.visited \subseteq DOMAIN cardGraph \cup {probe.start}
          /\ probe.iterations <= Cardinality(DOMAIN cardGraph \cup {probe.start})
    /\ (probe.fn = "bfs" /\ probe.pc # "loop"
            /\ probe.target \notin ReachedFrom({probe.start})) =>
          probe.pc = "return null" /\ probe.out = Null
    /\ (probe.fn = "findShortestPath"
            /\ (HoldsNoCard(probe.args[1], probe.args[2])
                   \/ HoldsNoCard(probe.args[3], probe.args[4]))) =>
          probe.pc = "return null" /\ probe.out = Null

\* bfs has returned null for a target that is a vertex out of reach, for a
\* target that is no vertex, or findShortestPath for a cell without a card
C29_WitnessUnreachableVertex ==
    /\ probe.fn = "bfs"
    /\ probe.pc = "return null"
    /\ probe.args = <<0, 7>>
    /\ 7 \in DOMAIN cardGraph
    /\ probe.iterations = Cardinality(ReachedFrom({0}))
    /\ probe.iterations > 1

(***************************************************************************)
(* C30: the move-history stack is last in, first out.  push puts the       *)
(* element on top of the elements already there, which keep their order;   *)
(* pop returns the top element, the one pushed last and not yet popped,    *)
(* and leaves the others, one fewer; peek returns the top element and      *)
(* leaves the stack as it is; on an empty stack pop and peek return null   *)
(* and the stack stays empty.                                              *)
(***************************************************************************)
C30_StackIsLifo ==
    [][/\ probe'.fn = "push" =>
            /\ StackSize(moveHistory') = StackSize(moveHistory) + 1
            /\ moveHistory'[Len(moveHistory')] = probe'.args[1]
            /\ SubSeq(moveHistory', 1, Len(moveHistory)) = moveHistory
       /\ probe'.fn = "pop" =>
            IF Len(moveHistory) = 0
            THEN probe'.out = Null /\ moveHistory' = <<>>
            ELSE /\ probe'.out = moveHistory[Len(moveHistory)]
                 /\ StackSize(moveHistory') = StackSize(moveHistory) - 1
                 /\ moveHistory' = SubSeq(moveHistory, 1, Len(moveHistory) - 1)
       /\ probe'.fn = "peek" =>
            /\ moveHistory' = moveHistory
            /\ IF Len(moveHistory) = 0
               THEN probe'.out = Null
               ELSE probe'.out = moveHistory[Len(moveHistory)]]_vars

\* cards 0, 1, 2 were pushed in this order and 2 was popped: 1 is on top
C30_Witness ==
    /\ probe.fn = "pop"
    /\ moveHistory = <<[card |-> 0, action |-> "flip"], [card |-> 1, action |-> "flip"]>>
    /\ probe.out = [card |-> 2, action |-> "flip"]

\* the number of matched cards
MatchedCount == Cardinality({k \in 1..Len(cards) : cards[k].isMatched})

(***************************************************************************)
(* C35: a card is never matched against itself: in every reachable state   *)
(* the number of matched cards is even and, while the phase is playing,    *)
(* the score is 10 for each two matched cards.                             *)
(***************************************************************************)
C35_MatchesPairDistinctCards ==
    /\ MatchedCount % 2 = 0
    /\ gameState = "playing" => score = 10 * (MatchedCount \div 2)

\* the cards of the entries of the move history
HistoryCards == {moveHistory[i].card : i \in 1..Len(moveHistory)}

(***************************************************************************)
(* C36: the game never becomes unwinnable.  Only flipCard matches cards,   *)
(* and it takes a face-down card; a card is turned face down only by       *)
(* flipBackCards, when it is pending, or by undoMove, when it is in the    *)
(* move history.  A card that is face up, unmatched, not pending and not   *)
(* in the history therefore stays so for ever, and the game cannot be won: *)
(* while the phase is playing there is no such card.                       *)
(***************************************************************************)
C36_NoCardLockedFaceUp ==
    gameState = "playing" =>
        \A k \in 1..Len(cards) :
            (cards[k].isFlipped /\ ~cards[k].isMatched) =>
                \/ InPending(flippedCards, cards[k].id)
                \/ cards[k].id \in HistoryCards

(***************************************************************************)
(* C39: at the step that wins the game the moves counter is at least the   *)
(* number of cards on the board, so the move bonus is at most              *)
(* max(0, 50 - number of cards).                                           *)
(***************************************************************************)
C39_MovesAtWinCoverTheBoard ==
    [][(gameState = "playing" /\ gameState' = "won") =>
          /\ moves' >= Len(cards)
          /\ MoveBonus(moves') <= Max(0, 50 - Len(cards))]_vars

(***************************************************************************)
(* C40: for every key of the engine, "row-col" of a cell of the board,     *)
(* _hash returns an index of the bucket array, 0 to 52 for the default     *)
(* table, so that every bucket in use is a slot of that array.             *)
(***************************************************************************)
C40_HashIndexInsideArray ==
    /\ \A row \in 0..(rows - 1) : \A col \in 0..(cols - 1) :
          Hash(Key(row, col)) \in 0..(HashSize - 1)
    /\ DOMAIN cardHash \subseteq 0..(HashSize - 1)

\* the unmatched cards with this symbol, as indexes into cards
UnmatchedWith(symbol) ==
    {k \in 1..Len(cards) : ~cards[k].isMatched /\ cards[k].symbol = symbol}

(***************************************************************************)
(* C31: when at least two unmatched cards share a symbol, the hint names   *)
(* such a symbol and the positions of two distinct unmatched cards that    *)
(* carry it; otherwise it is a message (no pair, or all matched) with no   *)
(* positions.                                                              *)
(***************************************************************************)
C31_HintNamesAnUnmatchedPair ==
    probe.fn = "generateHint" =>
        IF \E k \in 1..Len(cards) : Cardinality(UnmatchedWith(cards[k].symbol)) >= 2
        THEN /\ Cardinality(UnmatchedWith(probe.out.symbol)) >= 2
             /\ Len(probe.out.cards) = 2
             /\ probe.out.cards[1] # probe.out.cards[2]
             /\ \A i \in 1..2 :
                   \E k \in UnmatchedWith(probe.out.symbol) :
                       /\ cards[k].position.row = probe.out.cards[i].row
                       /\ cards[k].position.col = probe.out.cards[i].col
        ELSE /\ probe.out.cards = <<>>
             /\ "symbol" \notin DOMAIN probe.out

\* a hint for the second pair of the board, the first pair being matched
C31_Witness ==
    /\ probe.fn = "generateHint"
    /\ MatchedCount = 2
    /\ Len(probe.out.cards) = 2
    /\ \A k \in 1..Len(cards) :
          cards[k].isMatched => cards[k].symbol # probe.out.symbol

\* the calls that report on the game
ReadCalls ==
    {"getGameState", "generateHint", "getHighScores", "getConnectedComponents",
     "findShortestPath", "sortCardsBySymbol", "sortCardsByPosition"}

(***************************************************************************)
(* C32: getGameState, the hint, getHighScores, the connectivity and        *)
(* shortest-path analyses and the two sorts are read-only: a step of any   *)
(* of them, in any reachable state, leaves the cards (order and flags),    *)
(* the pending list, moves, score, phase, move history, score ledger,      *)
(* graph and position index as they were.                                  *)
(***************************************************************************)
C32_ReportsChangeNothing ==
    [][probe'.fn \in ReadCalls =>
          UNCHANGED <<cards, flippedCards, moves, score, gameState, timer,
                      moveHistory, scoreTree, cardGraph, cardHash,
                      rows, cols, totalCards>>]_vars

\* the cards were sorted by symbol, into an order that is not the order of
\* the board, in a game with a pending card and a move history
C32_Witness ==
    /\ probe.fn = "sortCardsBySymbol"
    /\ probe.out # cards
    /\ Len(flippedCards) > 0
    /\ Len(moveHistory) > 0

(***************************************************************************)
(* C34: high scores persist across the games of a CLI session: an entry    *)
(* of the high-score list is in the list after every later step, the start *)
(* of further games included.                                              *)
(***************************************************************************)
C34_HighScoresOutliveGames ==
    [][\A i \in 1..Len(getHighScores) :
          \E j \in 1..Len(getTopScores(scoreTree', DefaultLimit)) :
              getTopScores(scoreTree', DefaultLimit)[j] = getHighScores[i]]_vars

(***************************************************************************)
(* C38: in the CLI a mismatched pair is flipped back before the next       *)
(* prompt: whenever the CLI waits for input, after any flip, undo and hint *)
(* choices, the pending list holds at most one card.                       *)
(***************************************************************************)
C38_AtMostOnePendingAtPrompt == AtPrompt => Len(flippedCards) <= 1

\* the prompt after a flip whose mismatch was flipped back, the first card
\* of the pair having been face down on account of an undo
C38_Witness ==
    /\ AtPrompt
    /\ result.success
    /\ result.message = "Cards flipped back"
    /\ flippedCards = <<>>
    /\ \E k \in 1..Len(cards) : cards[k].isFlipped /\ ~cards[k].isMatched

\* C33: games created through the server are independent and all stay
\* addressable: creating a game replaces no earlier one and every returned
\* gameId maps to an engine of its own, so this.games holds as many engines
\* as gameIds were returned and no gameId was returned twice
C33_EveryGameKeepsItsOwnEngine ==
    /\ Cardinality(GameIds) = Len(probe.issued)
    /\ \A i, j \in 1..Len(probe.issued) :
          i # j => probe.issued[i] # probe.issued[j]

\* C37: in the browser client, after a flip response that leaves two cards
\* face up and unmatched, isProcessing stays true until the delayed flip
\* back and the refresh of the state have completed: while a flip back is
\* scheduled or under way, isProcessing is true
C37_BusyUntilFlipBackIsDone ==
    (\/ probe.timeouts > 0
     \/ \E i \in 1..Len(probe.tasks) : probe.tasks[i].kind \in {"flipback", "state"})
        => probe.isProcessing

====
